---- MODULE Spec2Model ----
(***************************************************************************)
(* A model of the lazy iterator adapters of monad_std (monad_std/iter).    *)
(* Every adapter is a small state machine driven by calls of its `next`.   *)
(* Each adapter has its own variables and its own specification; while one *)
(* adapter runs, the variables of the others stay parked.                  *)
(***************************************************************************)
EXTENDS Integers, Sequences, FiniteSets, TLC

\* ---------------------------------------------------------------- bounds
MaxVal == 2      \* element values are 1..MaxVal
MaxLen == 3      \* longest source
MaxCalls == 4    \* calls of an adapter's next that a run makes
MaxKey == 3      \* max/min: element values are 1..MaxKey
MaxGroupCalls == 4   \* GroupBy: calls of next on one Group
MaxChunk == 2    \* ArrayChunk, Chunk: chunk sizes are 1..MaxChunk
MaxChunkOps == 5 \* ArrayChunk, Chunk: calls that a run makes
MaxPeekOps == 5  \* Peekable: calls of next and peek that a run makes
MaxSepCalls == 7 \* Intersperse, IntersperseWith: calls of next that a run makes
MaxSeps == 3     \* IntersperseWith: the closure's results that are told apart
MaxAdv == 4      \* advance_by, nth: the argument n is in 0..MaxAdv
MaxAdvOps == 3   \* advance_by, nth: calls that a run makes on one iterator
MaxOuter == 2    \* Flatten, FlatMap: longest outer source
MaxInner == 2    \* Flatten, FlatMap: longest inner iterable
MaxFlatCalls == 5    \* Flatten, FlatMap: calls of next that a run makes
MaxFmElem == 2   \* FlatMap: the elements of the parent are 1..MaxFmElem
MaxTake == 3     \* Take, Skip: the argument n is in 0..MaxTake
MaxWindow == 2   \* MapWindows: window sizes are 1..MaxWindow
MaxOnceArg == 2  \* OnceWith: the argument n of nth, next_chunk, advance_by is in 0..MaxOnceArg
MaxOnceOps == 3  \* OnceWith: calls that a run makes
MaxCtorArg == 2  \* construction: the size argument n is in -1..MaxCtorArg
MaxOther == 1    \* construction: longest second parent of chain and zip
MaxScanLimit == 3  \* Scan: the scanner answers Empty above a limit in 0..MaxScanLimit

Vals == 1..MaxVal

\* ---------------------------------------------------------------- Option
\* Option.some(v) / Option.none()
Some(v) == <<"Some", v>>
None == <<"None">>
\* a call that ends in an exception instead of an Option
Raise == <<"Raise">>
is_some(o) == o[1] = "Some"
is_none(o) == o[1] = "None"
unwrap(o) == o[2]

\* ---------------------------------------------------------------- sources
\* A parent iterator is the sequence of answers its next gives, call by
\* call; after the last scripted answer it answers Option.none() for ever.
\* A script without None is an iterator over a list (siter); a script with a
\* None in the middle is an iterator that resumes after it reported Empty.
SeqsUpTo(S, n) == UNION {[1..k -> S] : k \in 0..n}
Answers == {Some(v) : v \in Vals} \cup {None}
Scripts == SeqsUpTo(Answers, MaxLen)
Lists == SeqsUpTo({Some(v) : v \in Vals}, MaxLen)

\* the answer of the (calls+1)-th call of next on the parent
SrcNext(src, calls) == IF calls < Len(src) THEN src[calls + 1] ELSE None

\* the values of the answers of a script, in order
RECURSIVE Payloads(_)
Payloads(s) ==
    IF s = <<>> THEN <<>>
    ELSE IF is_some(Head(s)) THEN <<unwrap(Head(s))>> \o Payloads(Tail(s))
    ELSE Payloads(Tail(s))

\* a script up to, and without, its first None
RECURSIVE UntilNone(_)
UntilNone(s) ==
    IF s = <<>> \/ is_none(Head(s)) THEN <<>>
    ELSE <<Head(s)>> \o UntilNone(Tail(s))

\* ---------------------------------------------------------------- state
VARIABLES
    fuse_src,      \* Fuse: the parent's script
    fuse_calls,    \* Fuse: calls of the parent's next so far
    fuse_it,       \* Fuse.__it: "Some" while the parent is held, else "None"
    fuse_out,      \* Fuse: the answers of Fuse.next so far
    red_seq,       \* max/min: the list the iterator runs over
    red_op,        \* max/min: the operation applied, "" before the call
    red_res,       \* max/min: the Option the operation returned
    zip_src1,      \* Zip.__it1: the first parent's script
    zip_calls1,    \* Zip: calls of the first parent's next so far
    zip_src2,      \* Zip.__it2: the second parent's script
    zip_calls2,    \* Zip: calls of the second parent's next so far
    zip_out,       \* Zip: the answers of Zip.next so far
    chain_src1,    \* Chain: the first parent's script
    chain_calls1,  \* Chain: calls of the first parent's next so far
    chain_src2,    \* Chain: the second parent's script
    chain_calls2,  \* Chain: calls of the second parent's next so far
    chain_it1,     \* Chain.__it1: "Some" while the first parent is held
    chain_it2,     \* Chain.__it2: "Some" while the second parent is held
    chain_out,     \* Chain: the answers of Chain.next so far
    tw_src,        \* TakeWhile: the script of the underlying iterator
    tw_calls,      \* TakeWhile: calls of the underlying iterator's next so far
    tw_func,       \* TakeWhile.__func: the values the predicate accepts
    tw_flag,       \* TakeWhile.__flag
    tw_fres,       \* TakeWhile: the predicate's results so far, call by call
    tw_out,        \* TakeWhile: the answers of TakeWhile.next so far
    tw_rest,       \* TakeWhile: the answers the caller got from the
                   \* underlying iterator itself
    tw_early,      \* TakeWhile: the caller pulled the underlying iterator
                   \* before TakeWhile.next had answered Empty
    pb_src,        \* PartitionBy.__it: the parent's script
    pb_calls,      \* PartitionBy: calls of the parent's next so far
    pb_spliter,    \* PartitionBy.__spliter: value -> Either
    pb_end,        \* PartitionBy.__end
    pb_child,      \* PartitionBy.__child_1 / __child_2: TRUE until deleted
    pg_end,        \* PartitionGroup.__end of the left (1) and right (2) child
    pg_buffer,     \* PartitionGroup.__buffer of each child
    pg_alive,      \* PartitionGroup: FALSE once __parent, __parent_next and
                   \* __buffer are deleted
    pg_out,        \* PartitionGroup: the answers of each child's next so far
    gb_src,        \* GroupBy: the script of the iterator that is grouped
    gb_predicate,  \* GroupBy.__predicate: value -> key
    gb_it,         \* GroupBy.__it, the Peekable over the Fuse over the
                   \* source: calls of the source's next, Fuse.__it,
                   \* Peekable.__peek, and alive = FALSE once it is deleted
    gb_current_yielding,      \* GroupBy.__current_yielding: 0 for none, else
                              \* the number of the group
    gb_current_yielding_key,  \* GroupBy.__current_yielding_key
    gb_cy_alive,   \* GroupBy: FALSE once __current_yielding and
                   \* __current_yielding_key are deleted
    gb_groups,     \* the Groups made so far: __buffer, __end, the answers of
                   \* the group's next, and whether the caller still holds it
    gb_out,        \* GroupBy: the answers of GroupBy.next so far
    gb_undrained,  \* GroupBy.next was called although the current group
                   \* had not yet answered Empty
    ac_src,        \* ArrayChunk.__it: the parent's script
    ac_calls,      \* ArrayChunk: calls of the parent's next so far
    ac_chunk_size, \* ArrayChunk.__chunk_size
    ac_unused,     \* ArrayChunk.__unused, Unset while the attribute
                   \* has not been assigned
    ac_log,        \* ArrayChunk: the calls so far, each with its answer
    ch_src,        \* Chunk: the parent's script
    ch_calls,      \* Chunk: calls of the parent's next so far
    ch_chunk_size, \* Chunk: the chunk size of the ArrayChunk in __it
    ch_unused,     \* Chunk: __unused of the ArrayChunk in __it
    ch_finished,   \* Chunk.__finished
    ch_out,        \* Chunk: the answers of Chunk.next so far
    pk_src,        \* Peekable.__it: the parent's script
    pk_calls,      \* Peekable: calls of the parent's next so far
    pk_peek,       \* Peekable.__peek
    pk_log,        \* Peekable: the calls so far, each with its answer and
                   \* with the number of parent calls made up to its return
    is_src,        \* Intersperse: the parent's script
    is_calls,      \* Intersperse: calls of the parent's next so far
    is_peek,       \* Intersperse: __peek of the Peekable in __it
    is_sep,        \* Intersperse.__sep
    is_need_sep,   \* Intersperse.__need_sep
    is_out,        \* Intersperse: the answers of Intersperse.next so far
    iw_src,        \* IntersperseWith: the parent's script
    iw_calls,      \* IntersperseWith: calls of the parent's next so far
    iw_peek,       \* IntersperseWith: __peek of the Peekable in __it
    iw_sep,        \* IntersperseWith.__sep: the closure's results, call by call
    iw_sep_calls,  \* IntersperseWith: calls of the closure so far
    iw_need_sep,   \* IntersperseWith.__need_sep
    iw_out,        \* IntersperseWith: the answers of IntersperseWith.next so far
    adv_src,       \* advance_by, nth: the script of the iterator
    adv_calls,     \* advance_by, nth: calls of the iterator's next so far
    adv_nops,      \* advance_by, nth: calls of next, advance_by and nth so far
    adv_last,      \* advance_by, nth: the last call, its argument, its result
                   \* and the iterator's position before and after it
    fl_src,        \* Flatten.__it: the script of the outer iterator
    fl_calls,      \* Flatten: calls of the outer iterator's next so far
    fl_current_it, \* Flatten.__current_it: the inner iterator, as its
                   \* script and the calls of its next so far
    fl_out,        \* Flatten: the answers of Flatten.next so far
    fm_src,        \* FlatMap.__it: the parent's script
    fm_func,       \* FlatMap.__func: the result for each element
    fm_calls,      \* FlatMap: calls of the parent's next so far
    fm_current_it, \* FlatMap.__current_it: the inner iterator, as its
                   \* script and the calls of its next so far
    fm_out,        \* FlatMap: the answers of FlatMap.next so far, Raise for
                   \* a call that ended in an exception
    si_src,        \* _IterIterable: what the Python iterator's __next__ does,
                   \* call by call
    si_pos,        \* _IterIterable: calls of the Python iterator's __next__
    si_out,        \* _IterIterable: the answers of next so far, Raise for a
                   \* call that ended in an exception
    take_src,      \* Take.__it: the parent's script
    take_calls,    \* Take: calls of the parent's next so far
    take_n,        \* Take: the argument n it was built with
    take_remain,   \* Take.__remain
    take_out,      \* Take: the answers of Take.next so far
    skip_src,      \* Skip.__it: the parent's script
    skip_calls,    \* Skip: calls of the parent's next so far
    skip_n,        \* Skip.__skip_n
    skip_skipped,  \* Skip.__skipped
    skip_first,    \* Skip: the parent calls the first Skip.next made, 0
                   \* before it
    skip_out,      \* Skip: the answers of Skip.next so far
    mw_src,        \* MapWindows: the parent's script
    mw_calls,      \* MapWindows: calls of the parent's next so far
    mw_const_len,  \* MapWindows.__const_len
    mw_it,         \* MapWindows.__it: "Some" while the parent is held
    mw_buffer,     \* MapWindows.__buffer
    mw_fcalls,     \* MapWindows: calls of __func so far
    mw_out,        \* MapWindows: the answers of MapWindows.next so far
    ow_val,        \* OnceWith: the value the closure returns
    ow_func,       \* OnceWith.__func: "Some" while the closure is held
    ow_fcalls,     \* OnceWith: calls of the closure so far
    ow_log,        \* OnceWith: the calls so far, each with its argument, its
                   \* result, __func before it and the closure calls after it
    con_src,       \* construction: the parent's script
    con_src2,      \* construction: the script of the other parent of
                   \* chain and zip
    con_calls,     \* construction: calls of the parent's next so far
    con_calls2,    \* construction: calls of the other parent's next so far
    con_fcalls,    \* construction: calls of the supplied closure so far
    con_it,        \* construction: the adapter built, its size argument, its
                   \* predicate, and "built", "failed" or "called" (next ran)
    mapw_src,      \* MapWhile.__it: the parent's script
    mapw_func,     \* MapWhile.__func: TRUE for the elements it answers Present
                   \* for
    mapw_calls,    \* MapWhile: calls of the parent's next so far
    mapw_log,      \* MapWhile: <<"next", answer, parent calls before>> of each
                   \* MapWhile.next, <<"it_next", ...>> of each next of the parent
    scan_src,      \* Scan.__it: the parent's script
    scan_limit,    \* Scan.__func: the limit of the scanner
    scan_init,     \* Scan: the argument init
    scan_state,    \* Scan.__state
    scan_calls,    \* Scan: calls of the parent's next so far
    scan_fcalls,   \* Scan: calls of __func so far
    scan_log       \* Scan: <<answer, __state before, __state after, calls of
                   \* __func after>> of each Scan.next

fuseVars == <<fuse_src, fuse_calls, fuse_it, fuse_out>>
redVars == <<red_seq, red_op, red_res>>
zipVars == <<zip_src1, zip_calls1, zip_src2, zip_calls2, zip_out>>
chainVars == <<chain_src1, chain_calls1, chain_src2, chain_calls2,
               chain_it1, chain_it2, chain_out>>

twVars == <<tw_src, tw_calls, tw_func, tw_flag, tw_fres, tw_out, tw_rest, tw_early>>

pbVars == <<pb_src, pb_calls, pb_spliter, pb_end, pb_child,
            pg_end, pg_buffer, pg_alive, pg_out>>

gbVars == <<gb_src, gb_predicate, gb_it, gb_current_yielding,
            gb_current_yielding_key, gb_cy_alive, gb_groups, gb_out, gb_undrained>>

acVars == <<ac_src, ac_calls, ac_chunk_size, ac_unused, ac_log>>

chVars == <<ch_src, ch_calls, ch_chunk_size, ch_unused, ch_finished, ch_out>>

pkVars == <<pk_src, pk_calls, pk_peek, pk_log>>

isVars == <<is_src, is_calls, is_peek, is_sep, is_need_sep, is_out>>

iwVars == <<iw_src, iw_calls, iw_peek, iw_sep, iw_sep_calls, iw_need_sep,
            iw_out>>

advVars == <<adv_src, adv_calls, adv_nops, adv_last>>

flVars == <<fl_src, fl_calls, fl_current_it, fl_out>>

fmVars == <<fm_src, fm_func, fm_calls, fm_current_it, fm_out>>

siVars == <<si_src, si_pos, si_out>>

takeVars == <<take_src, take_calls, take_n, take_remain, take_out>>

skipVars == <<skip_src, skip_calls, skip_n, skip_skipped, skip_first,
              skip_out>>

mwVars == <<mw_src, mw_calls, mw_const_len, mw_it, mw_buffer, mw_fcalls,
            mw_out>>

owVars == <<ow_val, ow_func, ow_fcalls, ow_log>>

conVars == <<con_src, con_src2, con_calls, con_calls2, con_fcalls, con_it>>

mapwVars == <<mapw_src, mapw_func, mapw_calls, mapw_log>>

scanVars == <<scan_src, scan_limit, scan_init, scan_state, scan_calls,
              scan_fcalls, scan_log>>

vars == <<fuseVars, redVars, zipVars, chainVars, twVars, pbVars, gbVars,
          acVars,
          chVars,
          pkVars,
          isVars,
          iwVars,
          advVars,
          flVars,
          fmVars,
          siVars,
          takeVars,
          skipVars,
          mwVars,
          owVars,
          conVars,
          mapwVars,
          scanVars>>

\* ---------------------------------------------------------------- parking
FuseParked ==
    /\ fuse_src = <<>>
    /\ fuse_calls = 0
    /\ fuse_it = "Some"
    /\ fuse_out = <<>>

RedParked ==
    /\ red_seq = <<>>
    /\ red_op = ""
    /\ red_res = None

ZipParked ==
    /\ zip_src1 = <<>>
    /\ zip_calls1 = 0
    /\ zip_src2 = <<>>
    /\ zip_calls2 = 0
    /\ zip_out = <<>>

ChainParked ==
    /\ chain_src1 = <<>>
    /\ chain_calls1 = 0
    /\ chain_src2 = <<>>
    /\ chain_calls2 = 0
    /\ chain_it1 = "Some"
    /\ chain_it2 = "Some"
    /\ chain_out = <<>>

TwParked ==
    /\ tw_src = <<>>
    /\ tw_calls = 0
    /\ tw_func = {}
    /\ tw_flag = FALSE
    /\ tw_fres = <<>>
    /\ tw_out = <<>>
    /\ tw_rest = <<>>
    /\ tw_early = FALSE

PbParked ==
    /\ pb_src = <<>>
    /\ pb_calls = 0
    /\ pb_spliter = <<>>
    /\ pb_end = FALSE
    /\ pb_child = <<TRUE, TRUE>>
    /\ pg_end = <<FALSE, FALSE>>
    /\ pg_buffer = <<<<>>, <<>>>>
    /\ pg_alive = <<TRUE, TRUE>>
    /\ pg_out = <<<<>>, <<>>>>

GbParked ==
    /\ gb_src = <<>>
    /\ gb_predicate = <<>>
    /\ gb_it = [calls |-> 0, fuse |-> "Some", peek |-> None, alive |-> TRUE]
    /\ gb_current_yielding = 0
    /\ gb_current_yielding_key = None
    /\ gb_cy_alive = TRUE
    /\ gb_groups = <<>>
    /\ gb_out = <<>>
    /\ gb_undrained = FALSE

ArrayChunkParked ==
    /\ ac_src = <<>>
    /\ ac_calls = 0
    /\ ac_chunk_size = 1
    /\ ac_unused = <<"Unset">>
    /\ ac_log = <<>>

ChunkParked ==
    /\ ch_src = <<>>
    /\ ch_calls = 0
    /\ ch_chunk_size = 1
    /\ ch_unused = <<"Unset">>
    /\ ch_finished = FALSE
    /\ ch_out = <<>>

PeekableParked ==
    /\ pk_src = <<>>
    /\ pk_calls = 0
    /\ pk_peek = None
    /\ pk_log = <<>>

IntersperseParked ==
    /\ is_src = <<>>
    /\ is_calls = 0
    /\ is_peek = None
    /\ is_sep = 1
    /\ is_need_sep = FALSE
    /\ is_out = <<>>

IntersperseWithParked ==
    /\ iw_src = <<>>
    /\ iw_calls = 0
    /\ iw_peek = None
    /\ iw_sep = <<>>
    /\ iw_sep_calls = 0
    /\ iw_need_sep = FALSE
    /\ iw_out = <<>>

AdvanceParked ==
    /\ adv_src = <<>>
    /\ adv_calls = 0
    /\ adv_nops = 0
    /\ adv_last = [op |-> "", n |-> 0, from |-> 0, ret |-> None, to |-> 0]

FlattenParked ==
    /\ fl_src = <<>>
    /\ fl_calls = 0
    /\ fl_current_it = None
    /\ fl_out = <<>>

FlatMapParked ==
    /\ fm_src = <<>>
    /\ fm_func = <<>>
    /\ fm_calls = 0
    /\ fm_current_it = None
    /\ fm_out = <<>>

DefaultIterParked ==
    /\ si_src = <<>>
    /\ si_pos = 0
    /\ si_out = <<>>

TakeParked ==
    /\ take_src = <<>>
    /\ take_calls = 0
    /\ take_n = 0
    /\ take_remain = 0
    /\ take_out = <<>>

SkipParked ==
    /\ skip_src = <<>>
    /\ skip_calls = 0
    /\ skip_n = 0
    /\ skip_skipped = FALSE
    /\ skip_first = 0
    /\ skip_out = <<>>

MapWindowsParked ==
    /\ mw_src = <<>>
    /\ mw_calls = 0
    /\ mw_const_len = 1
    /\ mw_it = "Some"
    /\ mw_buffer = None
    /\ mw_fcalls = 0
    /\ mw_out = <<>>

OnceWithParked ==
    /\ ow_val = 1
    /\ ow_func = "Some"
    /\ ow_fcalls = 0
    /\ ow_log = <<>>

ConstructParked ==
    /\ con_src = <<>>
    /\ con_src2 = <<>>
    /\ con_calls = 0
    /\ con_calls2 = 0
    /\ con_fcalls = 0
    /\ con_it = [kind |-> "", n |-> 0, pred |-> <<>>, state |-> ""]

MapWhileParked ==
    /\ mapw_src = <<>>
    /\ mapw_func = <<>>
    /\ mapw_calls = 0
    /\ mapw_log = <<>>

ScanParked ==
    /\ scan_src = <<>>
    /\ scan_limit = 0
    /\ scan_init = 0
    /\ scan_state = 0
    /\ scan_calls = 0
    /\ scan_fcalls = 0
    /\ scan_log = <<>>

\* every adapter but `c` is parked
Parked(c) ==
    /\ IF c = "fuse" THEN TRUE ELSE FuseParked
    /\ IF c = "red" THEN TRUE ELSE RedParked
    /\ IF c = "zip" THEN TRUE ELSE ZipParked
    /\ IF c = "chain" THEN TRUE ELSE ChainParked
    /\ IF c = "tw" THEN TRUE ELSE TwParked
    /\ IF c = "pb" THEN TRUE ELSE PbParked
    /\ IF c = "gb" THEN TRUE ELSE GbParked
    /\ IF c = "ac" THEN TRUE ELSE ArrayChunkParked
    /\ IF c = "ch" THEN TRUE ELSE ChunkParked
    /\ IF c = "pk" THEN TRUE ELSE PeekableParked
    /\ IF c = "is" THEN TRUE ELSE IntersperseParked
    /\ IF c = "iw" THEN TRUE ELSE IntersperseWithParked
    /\ IF c = "adv" THEN TRUE ELSE AdvanceParked
    /\ IF c = "fl" THEN TRUE ELSE FlattenParked
    /\ IF c = "fm" THEN TRUE ELSE FlatMapParked
    /\ IF c = "si" THEN TRUE ELSE DefaultIterParked
    /\ IF c = "take" THEN TRUE ELSE TakeParked
    /\ IF c = "skip" THEN TRUE ELSE SkipParked
    /\ IF c = "mw" THEN TRUE ELSE MapWindowsParked
    /\ IF c = "ow" THEN TRUE ELSE OnceWithParked
    /\ IF c = "con" THEN TRUE ELSE ConstructParked
    /\ IF c = "mapw" THEN TRUE ELSE MapWhileParked
    /\ IF c = "scan" THEN TRUE ELSE ScanParked

\* the variables of every adapter but `c` keep their values
Frame(c) ==
    /\ IF c = "fuse" THEN TRUE ELSE UNCHANGED fuseVars
    /\ IF c = "red" THEN TRUE ELSE UNCHANGED redVars
    /\ IF c = "zip" THEN TRUE ELSE UNCHANGED zipVars
    /\ IF c = "chain" THEN TRUE ELSE UNCHANGED chainVars
    /\ IF c = "tw" THEN TRUE ELSE UNCHANGED twVars
    /\ IF c = "pb" THEN TRUE ELSE UNCHANGED pbVars
    /\ IF c = "gb" THEN TRUE ELSE UNCHANGED gbVars
    /\ IF c = "ac" THEN TRUE ELSE UNCHANGED acVars
    /\ IF c = "ch" THEN TRUE ELSE UNCHANGED chVars
    /\ IF c = "pk" THEN TRUE ELSE UNCHANGED pkVars
    /\ IF c = "is" THEN TRUE ELSE UNCHANGED isVars
    /\ IF c = "iw" THEN TRUE ELSE UNCHANGED iwVars
    /\ IF c = "adv" THEN TRUE ELSE UNCHANGED advVars
    /\ IF c = "fl" THEN TRUE ELSE UNCHANGED flVars
    /\ IF c = "fm" THEN TRUE ELSE UNCHANGED fmVars
    /\ IF c = "si" THEN TRUE ELSE UNCHANGED siVars
    /\ IF c = "take" THEN TRUE ELSE UNCHANGED takeVars
    /\ IF c = "skip" THEN TRUE ELSE UNCHANGED skipVars
    /\ IF c = "mw" THEN TRUE ELSE UNCHANGED mwVars
    /\ IF c = "ow" THEN TRUE ELSE UNCHANGED owVars
    /\ IF c = "con" THEN TRUE ELSE UNCHANGED conVars
    /\ IF c = "mapw" THEN TRUE ELSE UNCHANGED mapwVars
    /\ IF c = "scan" THEN TRUE ELSE UNCHANGED scanVars

\* ================================================================== Fuse
\* Fuse.__init__
FuseInit ==
    /\ fuse_src \in Scripts
    /\ fuse_calls = 0
    /\ fuse_it = "Some"
    /\ fuse_out = <<>>

Fuse_finish_keep == "Some"

\* Fuse.__finish: the value it leaves in __it
Fuse_finish == "None"

\* Fuse.next
FuseNext ==
    /\ Len(fuse_out) < MaxCalls
    /\ LET called == fuse_it = "Some"
           r == IF called THEN SrcNext(fuse_src, fuse_calls) ELSE None
       IN  /\ fuse_calls' = IF called THEN fuse_calls + 1 ELSE fuse_calls
           /\ fuse_it' = IF is_none(r) THEN Fuse_finish ELSE fuse_it
           /\ fuse_out' = Append(fuse_out, r)
    /\ UNCHANGED fuse_src
    /\ Frame("fuse")

SpecFuseInit == FuseInit /\ Parked("fuse")

SpecFuseNext == FuseNext

SpecFuse == SpecFuseInit /\ [][SpecFuseNext]_vars

\* C1: once Fuse.next has returned Empty, every later Fuse.next returns
\* Empty and the parent's next is not called again, also for a parent that
\* would answer Present after its Empty.
C1_FuseSticky ==
    [][(fuse_out # <<>> /\ is_none(fuse_out[Len(fuse_out)]))
        => (fuse_out' = Append(fuse_out, None) /\ fuse_calls' = fuse_calls)]_vars

\* a resumable parent reported Empty, Fuse was called again and the parent
\* had a Present left to give
C1_Witness ==
    /\ Len(fuse_out) >= 2
    /\ is_none(fuse_out[Len(fuse_out) - 1])
    /\ fuse_calls < Len(fuse_src)
    /\ is_some(fuse_src[fuse_calls + 1])

\* ============================================================= max / min
\* tests/testutil/element.py: an Element compares by value and carries an id
\* that tells equal elements apart; here the id is the element's position.
Elements(vs) == [i \in 1..Len(vs) |-> [value |-> vs[i], id |-> i]]

\* utils.cmp.compare
compare(a, b) ==
    IF a > b THEN "Greater" ELSE IF a < b THEN "Less" ELSE "Equal"

\* Ordering.is_ge / Ordering.is_le
is_ge(o) == o # "Less"
is_le(o) == o # "Greater"

\* Element.__gt__ / Element.__lt__ under utils.cmp.compare
compare_elem(a, b) == compare(a.value, b.value)

\* the comparison max_by_key / min_by_key hand to max_by / min_by: compare
\* of the first components of the (key(item), item) pairs
compare_key(a, b) == compare(a[1], b[1])

\* utils.cmp.max_by / utils.cmp.min_by (fn returns an Ordering, which
\* Ordering.parse hands back as it is)
\* the call fn(a, b) of the comparison named fn
ores(fn, a, b) ==
    IF fn = "compare_elem" THEN compare_elem(a, b) ELSE compare_key(a, b)

max_by(a, b, fn) == IF is_ge(ores(fn, a, b)) THEN a ELSE b
min_by(a, b, fn) == IF is_le(ores(fn, a, b)) THEN a ELSE b

\* the lambdas that max / min / max_by_key / min_by_key hand to reduce
\* (max_by_key and min_by_key through max_by and min_by)
func(f, a, b) ==
    CASE f = "max" -> max_by(a, b, "compare_elem")
      [] f = "min" -> min_by(a, b, "compare_elem")
      [] f = "max_by_key" -> max_by(a, b, "compare_key")
      [] f = "min_by_key" -> min_by(a, b, "compare_key")

\* IterMeta.fold: acc = func(acc, v) for every remaining v, front to back
RECURSIVE fold(_, _, _)
fold(acc, rest, f) ==
    IF rest = <<>> THEN acc ELSE fold(func(f, acc, Head(rest)), Tail(rest), f)

\* IterMeta.reduce: self.next().map(lambda first: self.fold(first, func))
reduce(s, f) ==
    IF s = <<>> THEN None ELSE Some(fold(Head(s), Tail(s), f))

\* Option.map with lambda x: x[1]
map_second(o) == IF is_some(o) THEN Some(unwrap(o)[2]) ELSE None

\* IterMeta.max / IterMeta.min
IterMax(s) == reduce(s, "max")
IterMin(s) == reduce(s, "min")

\* IterMeta.max_by_key / IterMeta.min_by_key with key = lambda el: el.value
KeyPairs(s) == [i \in 1..Len(s) |-> <<s[i].value, s[i]>>]
IterMaxByKey(s) == map_second(reduce(KeyPairs(s), "max_by_key"))
IterMinByKey(s) == map_second(reduce(KeyPairs(s), "min_by_key"))

RedInit ==
    /\ red_seq \in {Elements(vs) : vs \in SeqsUpTo(1..MaxKey, MaxLen)}
    /\ red_op = ""
    /\ red_res = None

\* IterMeta.max
Max ==
    /\ red_op = ""
    /\ red_op' = "max"
    /\ red_res' = IterMax(red_seq)
    /\ UNCHANGED red_seq
    /\ Frame("red")

\* IterMeta.max_by_key
MaxByKey ==
    /\ red_op = ""
    /\ red_op' = "max_by_key"
    /\ red_res' = IterMaxByKey(red_seq)
    /\ UNCHANGED red_seq
    /\ Frame("red")

\* IterMeta.min
Min ==
    /\ red_op = ""
    /\ red_op' = "min"
    /\ red_res' = IterMin(red_seq)
    /\ UNCHANGED red_seq
    /\ Frame("red")

\* IterMeta.min_by_key
MinByKey ==
    /\ red_op = ""
    /\ red_op' = "min_by_key"
    /\ red_res' = IterMinByKey(red_seq)
    /\ UNCHANGED red_seq
    /\ Frame("red")

SpecRedInit == RedInit /\ Parked("red")

SpecRedNext == Max \/ MaxByKey \/ Min \/ MinByKey

SpecRed == SpecRedInit /\ [][SpecRedNext]_vars

\* the positions of red_seq whose element no element exceeds / undercuts
Maximal == {i \in 1..Len(red_seq) :
              \A j \in 1..Len(red_seq) : red_seq[j].value <= red_seq[i].value}
Minimal == {i \in 1..Len(red_seq) :
              \A j \in 1..Len(red_seq) : red_seq[j].value >= red_seq[i].value}
LastOf(S) == CHOOSE i \in S : \A j \in S : j <= i

\* C2: max / max_by_key of a non-empty sequence return a maximal element,
\* and of several equally maximal elements the one that occurs last.
C2_MaxLastWins ==
    (red_op \in {"max", "max_by_key"} /\ red_seq # <<>>)
        => red_res = Some(red_seq[LastOf(Maximal)])

\* C3: min / min_by_key of a non-empty sequence return a minimal element,
\* and of several equally minimal elements the one that occurs last.
C3_MinLastWins ==
    (red_op \in {"min", "min_by_key"} /\ red_seq # <<>>)
        => red_res = Some(red_seq[LastOf(Minimal)])

\* =================================================================== Zip
\* Zip.__init__
ZipInit ==
    /\ zip_src1 \in Scripts
    /\ zip_src2 \in Scripts
    /\ zip_calls1 = 0
    /\ zip_calls2 = 0
    /\ zip_out = <<>>

Option_zip_swapped(a, b) ==
    IF is_some(a) /\ is_some(b) THEN Some(<<unwrap(b), unwrap(a)>>) ELSE None

\* OpSome.zip / OpNone.zip
Option_zip(a, b) ==
    IF is_some(a) /\ is_some(b) THEN Some(<<unwrap(a), unwrap(b)>>) ELSE None

\* Zip.next: self.__it1.next().zip(self.__it2.next()); the argument
\* self.__it2.next() is evaluated before Option.zip is entered, whatever the
\* first parent answered.
ZipNext ==
    /\ Len(zip_out) < MaxCalls
    /\ LET r1 == SrcNext(zip_src1, zip_calls1)
           r2 == SrcNext(zip_src2, zip_calls2)
       IN  /\ zip_calls1' = zip_calls1 + 1
           /\ zip_calls2' = zip_calls2 + 1
           /\ zip_out' = Append(zip_out, Option_zip(r1, r2))
    /\ UNCHANGED <<zip_src1, zip_src2>>
    /\ Frame("zip")

SpecZipInit == ZipInit /\ Parked("zip")

SpecZipNext == ZipNext

SpecZip == SpecZipInit /\ [][SpecZipNext]_vars

\* C4: a Zip.next call in which the first parent answers Empty does not call
\* the second parent's next; the second parent is advanced at most once per
\* call, and only when the first parent yielded an item in that call.
C4_ZipShortCircuit ==
    [][/\ zip_calls2' - zip_calls2 \in {0, 1}
       /\ is_none(SrcNext(zip_src1, zip_calls1)) => zip_calls2' = zip_calls2]_vars

\* C30: for finite sources a of length m and b of length n, successive
\* Zip.next calls yield the pairs (a[i], b[i]) for i = 0 .. min(m, n)-1 in
\* order and then Empty.
C30_ZipPairs ==
    (zip_src1 \in Lists /\ zip_src2 \in Lists) =>
        LET m == IF Len(zip_src1) < Len(zip_src2) THEN Len(zip_src1) ELSE Len(zip_src2)
        IN  \A i \in 1..Len(zip_out) :
                zip_out[i] = IF i <= m
                             THEN Some(<<unwrap(zip_src1[i]), unwrap(zip_src2[i])>>)
                             ELSE None

\* two lists of different lengths whose first elements differ: the pairs and
\* an Empty after them were answered
C30_Witness ==
    /\ zip_src1 \in Lists
    /\ zip_src2 \in Lists
    /\ Len(zip_src1) >= 2
    /\ Len(zip_src2) > Len(zip_src1)
    /\ zip_src1[1] # zip_src2[1]
    /\ Len(zip_out) > Len(zip_src1)

\* ================================================================= Chain
\* IterMeta.chain: Chain(Option.some(self), Option.some(other))
ChainInit ==
    /\ chain_src1 \in Scripts
    /\ chain_src2 \in Scripts
    /\ chain_calls1 = 0
    /\ chain_calls2 = 0
    /\ chain_it1 = "Some"
    /\ chain_it2 = "Some"
    /\ chain_out = <<>>

Chain_clear_it1_keep == "Some"

\* Chain.__clear_it1: the value left in __it1
Chain_clear_it1 == "None"

Chain_clear_it2_keep == "Some"

\* Chain.__clear_it2: the value left in __it2
Chain_clear_it2 == "None"

\* Chain.next
ChainNext ==
    /\ Len(chain_out) < MaxCalls
    /\ LET call1 == chain_it1 = "Some"
           r1 == IF call1 THEN SrcNext(chain_src1, chain_calls1) ELSE None
           call2 == is_none(r1) /\ chain_it2 = "Some"
           r2 == IF call2 THEN SrcNext(chain_src2, chain_calls2) ELSE None
       IN  /\ chain_calls1' = IF call1 THEN chain_calls1 + 1 ELSE chain_calls1
           /\ chain_calls2' = IF call2 THEN chain_calls2 + 1 ELSE chain_calls2
           /\ chain_it1' = IF is_none(r1) THEN Chain_clear_it1 ELSE chain_it1
           /\ chain_it2' = IF is_none(r1) /\ is_none(r2) THEN Chain_clear_it2
                           ELSE chain_it2
           /\ chain_out' = Append(chain_out, IF is_some(r1) THEN r1 ELSE r2)
    /\ UNCHANGED <<chain_src1, chain_src2>>
    /\ Frame("chain")

SpecChainInit == ChainInit /\ Parked("chain")

SpecChainNext == ChainNext

SpecChain == SpecChainInit /\ [][SpecChainNext]_vars

\* what a drained Chain has to answer: the first parent's items up to its
\* first Empty, then the second parent's, then Empty
ChainExpected ==
    UntilNone(chain_src1) \o UntilNone(chain_src2) \o [i \in 1..MaxCalls + 1 |-> None]

\* C5: Chain yields the elements of first in order, then the elements of
\* second in order, then Empty; once first.next has returned Empty no later
\* Chain.next calls first.next again.
C5_ChainOrder ==
    /\ [](chain_out = SubSeq(ChainExpected, 1, Len(chain_out)))
    /\ [][chain_calls1 > Len(UntilNone(chain_src1))
            => chain_calls1' = chain_calls1]_vars

\* the first parent reported Empty after an item and could resume, and the
\* chain went on into the second parent and to its end
C5_Witness ==
    /\ UntilNone(chain_src1) # <<>>
    /\ Payloads(chain_src1) # Payloads(UntilNone(chain_src1))
    /\ UntilNone(chain_src2) # <<>>
    /\ Len(chain_out) > Len(UntilNone(chain_src1)) + Len(UntilNone(chain_src2))

\* C39: after both sides of a Chain have each returned Empty once, every
\* later Chain.next returns Empty without calling either parent's next, even
\* if a parent could resume producing elements; the second side is never
\* pulled before the first side has returned Empty.
C39_ChainDropsBoth ==
    /\ [](chain_calls2 > 0 => chain_calls1 > Len(UntilNone(chain_src1)))
    /\ [][(/\ chain_calls1 > Len(UntilNone(chain_src1))
           /\ chain_calls2 > Len(UntilNone(chain_src2)))
            => (/\ chain_calls1' = chain_calls1
                /\ chain_calls2' = chain_calls2
                /\ chain_out' = Append(chain_out, None))]_vars

\* both parents reported Empty and could resume, and Chain.next was called
\* again after that
C39_Witness ==
    /\ Payloads(chain_src1) # Payloads(UntilNone(chain_src1))
    /\ Payloads(chain_src2) # Payloads(UntilNone(chain_src2))
    /\ chain_calls1 > Len(UntilNone(chain_src1))
    /\ chain_calls2 > Len(UntilNone(chain_src2))
    /\ Len(chain_out) >= Len(UntilNone(chain_src1)) + Len(UntilNone(chain_src2)) + 2

\* ============================================================= TakeWhile
\* TakeWhile.__init__
TakeWhileInit ==
    /\ tw_src \in Scripts
    /\ tw_func \in SUBSET Vals
    /\ tw_calls = 0
    /\ tw_flag = FALSE
    /\ tw_fres = <<>>
    /\ tw_out = <<>>
    /\ tw_rest = <<>>
    /\ tw_early = FALSE

while_check_nolatch(value) ==
    [ret |-> IF value \in tw_func THEN Some(value) ELSE None, flag |-> tw_flag]

while_check_emit(value) ==
    [ret |-> Some(value), flag |-> IF value \in tw_func THEN tw_flag ELSE TRUE]

\* TakeWhile.__while_check: its return value and the __flag it leaves
while_check(value) ==
    IF value \in tw_func THEN [ret |-> Some(value), flag |-> tw_flag]
    ELSE [ret |-> None, flag |-> TRUE]

\* TakeWhile.next
TakeWhileNext ==
    /\ Len(tw_out) < MaxCalls
    /\ IF tw_flag
       THEN /\ tw_out' = Append(tw_out, None)
            /\ UNCHANGED <<tw_calls, tw_flag, tw_fres>>
       ELSE LET r == SrcNext(tw_src, tw_calls)
            IN  /\ tw_calls' = tw_calls + 1
                /\ IF is_some(r)
                   THEN /\ tw_fres' = Append(tw_fres, unwrap(r) \in tw_func)
                        /\ tw_flag' = while_check(unwrap(r)).flag
                        /\ tw_out' = Append(tw_out, while_check(unwrap(r)).ret)
                   ELSE /\ tw_out' = Append(tw_out, None)
                        /\ UNCHANGED <<tw_flag, tw_fres>>
    /\ UNCHANGED <<tw_src, tw_func, tw_rest, tw_early>>
    /\ Frame("tw")

\* the caller calls next on the iterator that the TakeWhile wraps
\* (tests/iter_test.py, test_iter_take: it.take_while(..) and then it itself)
TakeWhileUnderlyingNext ==
    /\ Len(tw_rest) < MaxCalls
    /\ tw_rest' = Append(tw_rest, SrcNext(tw_src, tw_calls))
    /\ tw_calls' = tw_calls + 1
    /\ tw_early' = (tw_early \/ \A i \in 1..Len(tw_out) : is_some(tw_out[i]))
    /\ UNCHANGED <<tw_src, tw_func, tw_flag, tw_fres, tw_out>>
    /\ Frame("tw")

SpecTakeWhileInit == TakeWhileInit /\ Parked("tw")

SpecTakeWhileNext == TakeWhileNext \/ TakeWhileUnderlyingNext

SpecTakeWhile == SpecTakeWhileInit /\ [][SpecTakeWhileNext]_vars

tw_failed == \E i \in 1..Len(tw_fres) : ~tw_fres[i]

\* C6: once the predicate has returned false, every later TakeWhile.next
\* returns Empty and calls neither the parent's next nor the predicate, also
\* when the parent's next elements would satisfy the predicate.
C6_TakeWhileLatch ==
    [][(tw_failed /\ tw_out' # tw_out)
        => /\ tw_out' = Append(tw_out, None)
           /\ tw_calls' = tw_calls
           /\ tw_fres' = tw_fres]_vars

\* the predicate failed, TakeWhile.next was called after that, and the
\* parent's next element would satisfy the predicate
C6_Witness ==
    /\ tw_failed
    /\ Len(tw_out) >= 2
    /\ is_none(tw_out[Len(tw_out) - 1])
    /\ tw_calls < Len(tw_src)
    /\ is_some(tw_src[tw_calls + 1])
    /\ unwrap(tw_src[tw_calls + 1]) \in tw_func

\* the longest prefix of a list whose elements all satisfy the predicate
RECURSIVE TwPrefix(_)
TwPrefix(s) ==
    IF s = <<>> \/ unwrap(Head(s)) \notin tw_func THEN <<>>
    ELSE <<Head(s)>> \o TwPrefix(Tail(s))

TwNones == [i \in 1..MaxCalls + 1 |-> None]

\* C7: over a list, a drained TakeWhile has yielded exactly the longest
\* prefix whose elements satisfy the predicate; the first failing element is
\* consumed and never emitted, and a later drain of the underlying iterator
\* yields the elements after it, in order.
C7_TakeWhilePrefix ==
    (tw_src \in Lists /\ ~tw_early)
        => LET k == Len(TwPrefix(tw_src))
           IN  /\ tw_out = SubSeq(TwPrefix(tw_src) \o TwNones, 1, Len(tw_out))
               /\ tw_rest = SubSeq(SubSeq(tw_src, k + 2, Len(tw_src)) \o TwNones,
                                   1, Len(tw_rest))
               /\ (Len(tw_out) > k /\ k < Len(tw_src)) => tw_calls >= k + 1

\* a list with a failing element in the middle: TakeWhile was drained and
\* the underlying iterator then gave the element after the failing one
C7_Witness ==
    /\ tw_src \in Lists
    /\ ~tw_early
    /\ Len(TwPrefix(tw_src)) >= 1
    /\ Len(tw_src) >= Len(TwPrefix(tw_src)) + 2
    /\ Len(tw_out) > Len(TwPrefix(tw_src))
    /\ tw_rest # <<>>
    /\ is_some(tw_rest[1])

\* ================================================ PartitionBy / PartitionGroup
\* Either.left(p) / Either.right(p); the left child is child 1, the right
\* child is child 2
Left(p) == <<1, p>>
Right(p) == <<2, p>>
Eithers == {Left(p) : p \in Vals} \cup {Right(p) : p \in Vals}

\* PartitionBy.__init__ / PartitionGroup.__init__
PartitionByInit ==
    /\ pb_src \in Scripts
    /\ pb_spliter \in [Vals -> Eithers]
    /\ pb_calls = 0
    /\ pb_end = FALSE
    /\ pb_child = <<TRUE, TRUE>>
    /\ pg_end = <<FALSE, FALSE>>
    /\ pg_buffer = <<<<>>, <<>>>>
    /\ pg_alive = <<TRUE, TRUE>>
    /\ pg_out = <<<<>>, <<>>>>

push_buffer_front(buffer, item) == <<item>> \o buffer

\* PartitionGroup._push_buffer
push_buffer(buffer, item) == Append(buffer, item)

\* PartitionBy.__next_left (c = 1) / __next_right (c = 2) with the
\* PartitionBy.__next they loop over: pull the parent until it gives a value
\* of side c or ends; the values of the other side go to `other`, the other
\* child's buffer.  Gives the answer, the calls made and the __end and the
\* other buffer that are left.
RECURSIVE next_side(_, _, _, _)
next_side(c, calls, end, other) ==
    IF end THEN [ret |-> None, calls |-> calls, end |-> TRUE, other |-> other]
    ELSE LET nxt == SrcNext(pb_src, calls)
         IN  IF is_none(nxt)
             THEN [ret |-> None, calls |-> calls + 1, end |-> TRUE, other |-> other]
             ELSE LET e == pb_spliter[unwrap(nxt)]
                  IN  IF e[1] = c
                      THEN [ret |-> Some(e[2]), calls |-> calls + 1,
                            end |-> FALSE, other |-> other]
                      ELSE next_side(c, calls + 1, FALSE, push_buffer(other, e[2]))

\* PartitionGroup.next of child c
PartitionGroupNext(c) ==
    LET o == 3 - c
        r == next_side(c, pb_calls, pb_end, pg_buffer[o])
    IN
    /\ Len(pg_out[c]) < MaxCalls
    /\ IF pg_end[c] /\ ~pg_alive[c]
       THEN \* `self.__end and self.__buffer`: __buffer is deleted
            /\ pg_out' = [pg_out EXCEPT ![c] = Append(@, Raise)]
            /\ UNCHANGED <<pb_calls, pb_end, pb_child, pg_end, pg_buffer, pg_alive>>
       ELSE IF pg_end[c] /\ pg_buffer[c] # <<>>
       THEN /\ pg_out' = [pg_out EXCEPT ![c] = Append(@, None)]
            /\ UNCHANGED <<pb_calls, pb_end, pb_child, pg_end, pg_buffer, pg_alive>>
       ELSE IF Len(pg_buffer[c]) # 0
       THEN /\ pg_out' = [pg_out EXCEPT ![c] = Append(@, Some(Head(pg_buffer[c])))]
            /\ pg_buffer' = [pg_buffer EXCEPT ![c] = Tail(@)]
            /\ UNCHANGED <<pb_calls, pb_end, pb_child, pg_end, pg_alive>>
       ELSE IF r.other # pg_buffer[o] /\ ~(pb_child[o] /\ pg_alive[o])
       THEN \* a value for a child that is deleted
            /\ pg_out' = [pg_out EXCEPT ![c] = Append(@, Raise)]
            /\ pb_calls' = r.calls
            /\ UNCHANGED <<pb_end, pb_child, pg_end, pg_buffer, pg_alive>>
       ELSE /\ pb_calls' = r.calls
            /\ pb_end' = r.end
            /\ pg_out' = [pg_out EXCEPT ![c] = Append(@, r.ret)]
            /\ IF is_none(r.ret)
               THEN /\ pb_child' = [pb_child EXCEPT ![c] = FALSE]
                    /\ pg_end' = [pg_end EXCEPT ![c] = TRUE]
                    /\ pg_alive' = [pg_alive EXCEPT ![c] = FALSE]
                    /\ pg_buffer' = [pg_buffer EXCEPT ![c] = <<>>, ![o] = r.other]
               ELSE /\ pg_buffer' = [pg_buffer EXCEPT ![o] = r.other]
                    /\ UNCHANGED <<pb_child, pg_end, pg_alive>>
    /\ UNCHANGED <<pb_src, pb_spliter>>
    /\ Frame("pb")

LeftNext == PartitionGroupNext(1)
RightNext == PartitionGroupNext(2)

SpecPartitionByInit == PartitionByInit /\ Parked("pb")

SpecPartitionByNext == LeftNext \/ RightNext

SpecPartitionBy == SpecPartitionByInit /\ [][SpecPartitionByNext]_vars

\* the payloads of side c among the answers s of the parent, in order
RECURSIVE SidePayloads(_, _)
SidePayloads(c, s) ==
    IF s = <<>> THEN <<>>
    ELSE LET e == pb_spliter[unwrap(Head(s))]
         IN  (IF e[1] = c THEN <<e[2]>> ELSE <<>>) \o SidePayloads(c, Tail(s))

\* the parent's items up to its first Empty, and those pulled so far
PbItems == UntilNone(pb_src)
PbPulled == SubSeq(PbItems, 1, IF pb_calls < Len(PbItems) THEN pb_calls ELSE Len(PbItems))

\* C8: under every interleaving of left.next and right.next each child
\* yields exactly the payloads of its side, in source order and once each;
\* what one child pulls for the other is buffered for the other (yielded and
\* buffered payloads together are the side's payloads among the elements
\* pulled so far); a child reports Empty only after the parent is exhausted
\* and its buffer is drained.
C8_PartitionBy ==
    \A c \in {1, 2} :
        /\ pg_alive[c] =>
             Payloads(pg_out[c]) \o pg_buffer[c] = SidePayloads(c, PbPulled)
        /\ ~pg_alive[c] => Payloads(pg_out[c]) = SidePayloads(c, PbItems)
        /\ \A i \in 1..Len(pg_out[c]) :
             /\ is_none(pg_out[c][i]) => i = Len(SidePayloads(c, PbItems)) + 1
             /\ is_some(pg_out[c][i]) => i <= Len(SidePayloads(c, PbItems))

\* the left child pulled the parent past two different values of the right
\* side and to its end; the right child took one of them from its buffer
\* and still has the other one buffered
C8_Witness ==
    /\ pg_out[1] # <<>>
    /\ is_none(pg_out[1][Len(pg_out[1])])
    /\ Payloads(pg_out[2]) # <<>>
    /\ pg_buffer[2] # <<>>
    /\ Head(pg_buffer[2]) # Payloads(pg_out[2])[1]

\* C35: after a child iterator of partition_by has returned Empty, every
\* further next call on that child also returns Empty: it does not raise,
\* for any order in which the two children were exhausted.
C35_ChildEmptySticky ==
    \A c \in {1, 2} :
        \A i \in 1..Len(pg_out[c]) :
            is_none(pg_out[c][i]) =>
                \A j \in (i + 1)..Len(pg_out[c]) : pg_out[c][j] = None

\* ======================================================== GroupBy / Group
\* GroupBy.__init__: self.__it = __it.fuse().peekable(); the keys are
\* booleans, as with the lambda el: el >= 0 of the examples of group_by
GroupByInit ==
    /\ gb_src \in Scripts
    /\ gb_predicate \in [Vals -> BOOLEAN]
    /\ gb_it = [calls |-> 0, fuse |-> "Some", peek |-> None, alive |-> TRUE]
    /\ gb_current_yielding = 0
    /\ gb_current_yielding_key = None
    /\ gb_cy_alive = TRUE
    /\ gb_groups = <<>>
    /\ gb_out = <<>>
    /\ gb_undrained = FALSE

\* Fuse.next on the Fuse inside __it: the answer and the state left
fuse_next(it) ==
    IF it.fuse = "Some"
    THEN LET r == SrcNext(gb_src, it.calls)
         IN  [ret |-> r,
              it |-> [it EXCEPT !.calls = @ + 1,
                                !.fuse = IF is_none(r) THEN Fuse_finish ELSE @]]
    ELSE [ret |-> None, it |-> [it EXCEPT !.fuse = Fuse_finish]]

\* Peekable.peek
peek(it) ==
    IF is_some(it.peek) THEN [ret |-> unwrap(it.peek), it |-> it]
    ELSE LET f == fuse_next(it)
         IN  [ret |-> f.ret, it |-> [f.it EXCEPT !.peek = Some(f.ret)]]

\* Peekable.next
peekable_next(it) ==
    IF is_some(it.peek) THEN [ret |-> unwrap(it.peek), it |-> [it EXCEPT !.peek = None]]
    ELSE LET f == fuse_next(it)
         IN  [ret |-> f.ret, it |-> [f.it EXCEPT !.peek = None]]

key_eq_always(key, current) == TRUE

\* key == self.__current_yielding_key.unwrap_unchecked(), where current is
\* the Option __current_yielding_key (unwrap_unchecked of none is no key)
key_eq(key, current) == is_some(current) /\ key = unwrap(current)

unreferenced_always(held) == TRUE

\* sys.getrefcount(self.__current_yielding.unwrap_unchecked()) == 2: nothing
\* but __current_yielding refers to the group
unreferenced(held) == ~held

\* the two while loops of GroupBy.next: take the items that follow with the
\* key `current` out of __it; cls are the items taken
RECURSIVE fast_forward(_, _, _)
fast_forward(it, current, cls) ==
    LET pk == peek(it)
    IN  IF is_none(pk.ret) THEN [it |-> pk.it, cls |-> cls]
        ELSE IF ~key_eq(gb_predicate[unwrap(pk.ret)], current)
        THEN [it |-> pk.it, cls |-> cls]
        ELSE LET n == peekable_next(pk.it)
             IN  fast_forward(n.it, current, Append(cls, unwrap(n.ret)))

\* Group.__init__
NewGroup == [buffer |-> None, end |-> FALSE, held |-> TRUE, out |-> <<>>]

\* GroupBy.next
GroupByNext ==
    /\ Len(gb_out) < MaxCalls
    /\ gb_undrained' =
         (gb_undrained \/
            (gb_current_yielding # 0 /\
               \A i \in 1..Len(gb_groups[gb_current_yielding].out) :
                   is_some(gb_groups[gb_current_yielding].out[i])))
    /\ IF ~gb_it.alive
       THEN \* self.__it is deleted
            /\ gb_out' = Append(gb_out, Raise)
            /\ UNCHANGED <<gb_it, gb_current_yielding, gb_current_yielding_key,
                           gb_cy_alive, gb_groups>>
       ELSE LET p0 == peek(gb_it)
            IN
            IF is_none(p0.ret)
            THEN /\ gb_it' = p0.it
                 /\ gb_cy_alive' = FALSE
                 \* del of the attributes, which fails if they are deleted
                 /\ gb_out' = Append(gb_out, IF gb_cy_alive THEN None ELSE Raise)
                 /\ UNCHANGED <<gb_current_yielding, gb_current_yielding_key, gb_groups>>
            ELSE LET cur == gb_current_yielding
                     pass == cur = 0 \/ is_none(gb_current_yielding_key)
                     ff == IF pass THEN [it |-> p0.it, cls |-> <<>>]
                           ELSE fast_forward(p0.it, gb_current_yielding_key, <<>>)
                     groups == IF pass \/ unreferenced(gb_groups[cur].held)
                               THEN gb_groups
                               ELSE [gb_groups EXCEPT ![cur].buffer = Some(ff.cls)]
                     p1 == peek(ff.it)
                 IN
                 IF is_none(p1.ret)
                 THEN /\ gb_it' = [p1.it EXCEPT !.alive = FALSE]
                      /\ gb_current_yielding' = 0
                      /\ gb_current_yielding_key' = None
                      /\ gb_groups' = groups
                      /\ gb_out' = Append(gb_out, None)
                      /\ UNCHANGED gb_cy_alive
                 ELSE /\ gb_it' = p1.it
                      /\ gb_current_yielding' = Len(gb_groups) + 1
                      /\ gb_current_yielding_key' = Some(gb_predicate[unwrap(p1.ret)])
                      /\ gb_groups' = Append(groups, NewGroup)
                      /\ gb_out' = Append(gb_out,
                             Some(<<gb_predicate[unwrap(p1.ret)], Len(gb_groups) + 1>>))
                      /\ UNCHANGED gb_cy_alive
    /\ UNCHANGED <<gb_src, gb_predicate>>
    /\ Frame("gb")

\* GroupBy._sub_next: the answer, the __it left, and whether an attribute
\* it reads is deleted
sub_next ==
    IF ~gb_it.alive THEN [ret |-> Raise, it |-> gb_it]
    ELSE LET pk == peek(gb_it)
         IN  IF is_none(pk.ret) THEN [ret |-> None, it |-> pk.it]
             ELSE IF ~gb_cy_alive THEN [ret |-> Raise, it |-> pk.it]
             ELSE IF key_eq(gb_predicate[unwrap(pk.ret)], gb_current_yielding_key)
             THEN peekable_next(pk.it)
             ELSE [ret |-> None, it |-> pk.it]

\* Group.next of a group the caller holds
GroupNext ==
    \E g \in 1..Len(gb_groups) :
        /\ gb_groups[g].held
        /\ Len(gb_groups[g].out) < MaxGroupCalls
        /\ IF gb_groups[g].end
           THEN /\ gb_groups' = [gb_groups EXCEPT ![g].out = Append(@, None)]
                /\ UNCHANGED gb_it
           ELSE IF is_some(gb_groups[g].buffer)
           THEN \* next of the list iterator made by _extend
                LET el == unwrap(gb_groups[g].buffer)
                IN  /\ gb_groups' =
                         IF el = <<>>
                         THEN [gb_groups EXCEPT ![g].out = Append(@, None)]
                         ELSE [gb_groups EXCEPT ![g].out = Append(@, Some(Head(el))),
                                                ![g].buffer = Some(Tail(el))]
                    /\ UNCHANGED gb_it
           ELSE /\ gb_it' = sub_next.it
                /\ gb_groups' = [gb_groups EXCEPT
                        ![g].out = Append(@, sub_next.ret),
                        ![g].end = IF is_none(sub_next.ret) THEN TRUE ELSE @]
        /\ UNCHANGED <<gb_src, gb_predicate, gb_current_yielding,
                       gb_current_yielding_key, gb_cy_alive, gb_out, gb_undrained>>
        /\ Frame("gb")

\* the caller gives up its reference to a group
GroupRelease ==
    \E g \in 1..Len(gb_groups) :
        /\ gb_groups[g].held
        /\ gb_groups' = [gb_groups EXCEPT ![g].held = FALSE]
        /\ UNCHANGED <<gb_src, gb_predicate, gb_it, gb_current_yielding,
                       gb_current_yielding_key, gb_cy_alive, gb_out, gb_undrained>>
        /\ Frame("gb")

SpecGroupByInit == GroupByInit /\ Parked("gb")

SpecGroupByNext == GroupByNext \/ GroupNext \/ GroupRelease

SpecGroupBy == SpecGroupByInit /\ [][SpecGroupByNext]_vars

\* the items the fused source gives, and their maximal runs of equal key
GbItems == Payloads(UntilNone(gb_src))

RECURSIVE Runs(_)
Runs(s) ==
    IF s = <<>> THEN <<>>
    ELSE LET r == Runs(Tail(s))
         IN  IF r # <<>> /\ gb_predicate[Head(r[1])] = gb_predicate[Head(s)]
             THEN <<<<Head(s)>> \o r[1]>> \o Tail(r)
             ELSE <<<<Head(s)>>>> \o r

GbRuns == Runs(GbItems)

IsPrefix(a, b) == Len(a) <= Len(b) /\ a = SubSeq(b, 1, Len(a))

\* what the groups 1..n have yielded, one group after the other
RECURSIVE Yielded(_)
Yielded(n) == IF n = 0 THEN <<>> ELSE Yielded(n - 1) \o Payloads(gb_groups[n].out)

\* what the groups 1..n have yielded or hold in their buffers
RECURSIVE Delivered(_)
Delivered(n) ==
    IF n = 0 THEN <<>>
    ELSE Delivered(n - 1) \o Payloads(gb_groups[n].out) \o
         (IF is_some(gb_groups[n].buffer) THEN unwrap(gb_groups[n].buffer) ELSE <<>>)

GroupAnsweredEmpty(g) ==
    \E i \in 1..Len(gb_groups[g].out) : is_none(gb_groups[g].out[i])

\* C9: when every Group is drained before GroupBy.next is called again,
\* GroupBy yields one (key, group) pair per maximal run of equal key, in
\* source order; each group yields exactly its run, adjacent groups have
\* different keys, and the groups together yield the source.
C9_GroupByRuns ==
    ~gb_undrained =>
        /\ \A i \in 1..Len(gb_out) :
             /\ is_some(gb_out[i]) =>
                  /\ i <= Len(GbRuns)
                  /\ unwrap(gb_out[i]) = <<gb_predicate[Head(GbRuns[i])], i>>
                  /\ i > 1 => unwrap(gb_out[i])[1] # unwrap(gb_out[i - 1])[1]
             /\ is_none(gb_out[i]) => i = Len(GbRuns) + 1
        /\ \A g \in 1..Len(gb_groups) :
             /\ IsPrefix(Payloads(gb_groups[g].out), GbRuns[g])
             /\ (g < Len(gb_groups) \/ GroupAnsweredEmpty(g)) =>
                  Payloads(gb_groups[g].out) = GbRuns[g]
        /\ (\E i \in 1..Len(gb_out) : is_none(gb_out[i])) =>
             Yielded(Len(gb_groups)) = GbItems

\* two runs, the first of them longer than one item, each drained before
\* GroupBy.next was called again, up to the Empty of GroupBy.next
C9_Witness ==
    /\ ~gb_undrained
    /\ Len(gb_groups) >= 2
    /\ Len(GbRuns[1]) >= 2
    /\ gb_out # <<>>
    /\ is_none(gb_out[Len(gb_out)])
    /\ Yielded(Len(gb_groups)) = GbItems

GbPulled ==
    (IF gb_it.calls < Len(GbItems) THEN gb_it.calls ELSE Len(GbItems))
    - (IF is_some(gb_it.peek) /\ is_some(unwrap(gb_it.peek)) THEN 1 ELSE 0)

\* C10: a GroupBy.next call while the caller holds the undrained current
\* group moves the rest of that group's run into the group's buffer; under
\* every interleaving of GroupBy.next and next of the held groups each held
\* group yields exactly the elements of its own run, in order and once each,
\* and no source element goes to two groups.
C10_GroupByHeld ==
    /\ \A g \in 1..Len(gb_groups) :
         /\ g <= Len(GbRuns)
         /\ IsPrefix(Payloads(gb_groups[g].out), GbRuns[g])
         /\ \A i \in 1..Len(gb_groups[g].out) :
              is_none(gb_groups[g].out[i]) => i > Len(GbRuns[g])
         /\ (gb_groups[g].held /\ g # gb_current_yielding) =>
              /\ is_some(gb_groups[g].buffer)
              /\ Payloads(gb_groups[g].out) \o unwrap(gb_groups[g].buffer) = GbRuns[g]
    /\ (\A g \in 1..Len(gb_groups) : gb_groups[g].held) =>
         Delivered(Len(gb_groups)) = SubSeq(GbItems, 1, GbPulled)

\* the caller holds the first group, took one item of it, called
\* GroupBy.next, which moved the rest of the run into the group's buffer,
\* and took an item of the second group
C10_Witness ==
    /\ Len(gb_groups) >= 2
    /\ gb_groups[1].held
    /\ Payloads(gb_groups[1].out) # <<>>
    /\ is_some(gb_groups[1].buffer)
    /\ unwrap(gb_groups[1].buffer) # <<>>
    /\ Payloads(gb_groups[2].out) # <<>>

\* C34: after GroupBy.next has returned Empty, every further GroupBy.next
\* call also returns Empty: it does not raise and yields no further group,
\* whether exhaustion was detected at the start of the call or after
\* fast-forwarding the last group.
C34_GroupByEmptySticky ==
    \A i \in 1..Len(gb_out) :
        is_none(gb_out[i]) =>
            \A j \in (i + 1)..Len(gb_out) : gb_out[j] = None

\* ============================================================ ArrayChunk
\* an attribute that __init__ declares and does not assign
Unset == <<"Unset">>

\* ArrayChunk.__init__: chunk_size > 0, __unused is left unassigned
ArrayChunkInit ==
    /\ ac_src \in Scripts
    /\ ac_chunk_size \in 1..MaxChunk
    /\ ac_calls = 0
    /\ ac_unused = Unset
    /\ ac_log = <<>>

arr_append_front(arr, x) == <<x>> \o arr

\* arr.append(x.unwrap())
arr_append(arr, x) == Append(arr, x)

\* ArrayChunk.next, the loop `for _ in range(chunk_size)`: `left` rounds are
\* still to run; full is FALSE when the loop met an Option.none() and broke
RECURSIVE array_chunk_loop(_, _, _, _)
array_chunk_loop(src, arr, calls, left) ==
    IF left <= 0 THEN [arr |-> arr, calls |-> calls, full |-> TRUE]
    ELSE LET x == SrcNext(src, calls)
         IN  IF is_some(x)
             THEN array_chunk_loop(src, arr_append(arr, unwrap(x)),
                                   calls + 1, left - 1)
             ELSE [arr |-> arr, calls |-> calls + 1, full |-> FALSE]

\* ArrayChunk.next as a function of the object's fields: the answer and the
\* new values of the parent's position and of __unused
array_chunk_next(src, calls, chunk_size, unused) ==
    LET l == array_chunk_loop(src, <<>>, calls, chunk_size)
    IN  IF l.full
        THEN [ret |-> Some(l.arr), calls |-> l.calls, unused |-> unused]
        ELSE [ret |-> None, calls |-> l.calls, unused |-> Some(l.arr)]

\* ArrayChunk.get_unused as a function of __unused: reading the unassigned
\* attribute raises AttributeError
array_chunk_get_unused(unused) == IF unused = Unset THEN Raise ELSE unused

\* ArrayChunk.next
ArrayChunkNext ==
    /\ Len(ac_log) < MaxChunkOps
    /\ LET r == array_chunk_next(ac_src, ac_calls, ac_chunk_size, ac_unused)
       IN  /\ ac_calls' = r.calls
           /\ ac_unused' = r.unused
           /\ ac_log' = Append(ac_log, <<"next", r.ret>>)
    /\ UNCHANGED <<ac_src, ac_chunk_size>>
    /\ Frame("ac")

\* ArrayChunk.get_unused
ArrayChunkGetUnused ==
    /\ Len(ac_log) < MaxChunkOps
    /\ ac_log' = Append(ac_log, <<"get_unused", array_chunk_get_unused(ac_unused)>>)
    /\ UNCHANGED <<ac_src, ac_calls, ac_chunk_size, ac_unused>>
    /\ Frame("ac")

SpecArrayChunkInit == ArrayChunkInit /\ Parked("ac")

SpecArrayChunkNext == ArrayChunkNext \/ ArrayChunkGetUnused

SpecArrayChunk == SpecArrayChunkInit /\ [][SpecArrayChunkNext]_vars

\* the answers of the calls of `kind` among the first n calls of a log
RECURSIVE AnswersOf(_, _, _)
AnswersOf(log, kind, n) ==
    IF n = 0 THEN <<>>
    ELSE IF log[n][1] = kind
         THEN Append(AnswersOf(log, kind, n - 1), log[n][2])
         ELSE AnswersOf(log, kind, n - 1)

\* the i-th of the full chunks of a list: elements (i-1)*N+1 .. i*N
FullChunk(list, N, i) == Some(SubSeq(list, (i - 1) * N + 1, i * N))

\* the full chunks of a list, in order
FullChunks(list, N) == [i \in 1..(Len(list) \div N) |-> FullChunk(list, N, i)]

\* the Len(list) mod N trailing elements of a list
Trailing(list, N) == SubSeq(list, (Len(list) \div N) * N + 1, Len(list))

\* C11: over a finite source of length L and with chunk size N >= 1,
\* ArrayChunk.next yields floor(L/N) lists, the i-th holding the source
\* elements i*N .. i*N+N-1 in order, and then returns Empty; every
\* get_unused() made after that first Empty and before another next returns
\* Present of the L mod N trailing elements in order.
C11_ArrayChunk ==
    ac_src \in Lists =>
        LET list == Payloads(ac_src)
            N == ac_chunk_size
            expected == Append(FullChunks(list, N), None)
        IN  \A n \in 1..Len(ac_log) :
                LET nexts == AnswersOf(ac_log, "next", n)
                IN  /\ (ac_log[n][1] = "next" /\ Len(nexts) <= Len(expected))
                        => ac_log[n][2] = expected[Len(nexts)]
                    /\ (ac_log[n][1] = "get_unused" /\ Len(nexts) = Len(expected))
                        => ac_log[n][2] = Some(Trailing(list, N))

\* a list that leaves a partial chunk behind a full one: the full chunk and
\* the Empty were answered, and get_unused was called twice after that
C11_Witness ==
    /\ ac_src \in Lists
    /\ Len(ac_src) >= ac_chunk_size
    /\ Len(ac_src) % ac_chunk_size # 0
    /\ Len(ac_log) >= 2
    /\ ac_log[Len(ac_log)][1] = "get_unused"
    /\ ac_log[Len(ac_log) - 1][1] = "get_unused"
    /\ Len(AnswersOf(ac_log, "next", Len(ac_log))) = Len(ac_src) \div ac_chunk_size + 1

\* C36: ArrayChunk.get_unused() is defined in every reachable state: called
\* before ArrayChunk.next has ever returned Empty (including right after
\* construction), it returns Empty rather than failing.
C36_GetUnusedDefined ==
    \A n \in 1..Len(ac_log) :
        LET nexts == AnswersOf(ac_log, "next", n)
        IN  (ac_log[n][1] = "get_unused" /\ \A i \in 1..Len(nexts) : is_some(nexts[i]))
                => ac_log[n][2] = None

\* C37: once ArrayChunk.next has returned Empty and stored a partial chunk,
\* a further ArrayChunk.next on the exhausted source leaves the value
\* returned by get_unused() unchanged.
C37_UnusedKept ==
    [][(/\ ac_src \in Lists
        /\ ac_unused # Unset
        /\ Len(ac_log') = Len(ac_log) + 1
        /\ ac_log'[Len(ac_log')][1] = "next")
          => array_chunk_get_unused(ac_unused') = array_chunk_get_unused(ac_unused)]_vars

\* ================================================================= Chunk
\* Chunk.__init__: wraps it.array_chunk(chunk_size)
ChunkInit ==
    /\ ch_src \in Scripts
    /\ ch_chunk_size \in 1..MaxChunk
    /\ ch_calls = 0
    /\ ch_unused = Unset
    /\ ch_finished = FALSE
    /\ ch_out = <<>>

Chunk_finish_keep == FALSE

\* Chunk.next: the value `self.__finished = True` stores
Chunk_finish == TRUE

\* Chunk.next
ChunkNext ==
    /\ Len(ch_out) < MaxChunkOps
    /\ IF ~ch_finished
       THEN LET r == array_chunk_next(ch_src, ch_calls, ch_chunk_size, ch_unused)
            IN  /\ ch_calls' = r.calls
                /\ ch_unused' = r.unused
                /\ IF is_none(r.ret)
                   THEN /\ ch_finished' = Chunk_finish
                        /\ ch_out' = Append(ch_out, array_chunk_get_unused(r.unused))
                   ELSE /\ ch_finished' = ch_finished
                        /\ ch_out' = Append(ch_out, r.ret)
       ELSE /\ ch_out' = Append(ch_out, None)
            /\ UNCHANGED <<ch_calls, ch_unused, ch_finished>>
    /\ UNCHANGED <<ch_src, ch_chunk_size>>
    /\ Frame("ch")

SpecChunkInit == ChunkInit /\ Parked("ch")

SpecChunkNext == ChunkNext

SpecChunk == SpecChunkInit /\ [][SpecChunkNext]_vars

\* an ArrayChunk run on its own over a script: the answer of each of its
\* first k calls of next, paired with __unused as that call left it
RECURSIVE ArrayChunkRun(_, _, _, _, _)
ArrayChunkRun(src, calls, N, unused, k) ==
    IF k = 0 THEN <<>>
    ELSE LET r == array_chunk_next(src, calls, N, unused)
         IN  <<<<r.ret, r.unused>>>> \o ArrayChunkRun(src, r.calls, N, r.unused, k - 1)

\* the number of the first call of a run that answered Empty, 0 if none did
FirstEmpty(run) ==
    IF \E i \in 1..Len(run) : is_none(run[i][1])
    THEN CHOOSE i \in 1..Len(run) :
            /\ is_none(run[i][1])
            /\ \A j \in 1..(i - 1) : is_some(run[j][1])
    ELSE 0

\* C12: Chunk.next yields the same full chunks as ArrayChunk over the same
\* source; on the step where ArrayChunk would return Empty it yields the
\* stored partial chunk, once; every later Chunk.next returns Empty and does
\* not pull the source again.
C12_Chunk ==
    /\ [](LET run == ArrayChunkRun(ch_src, 0, ch_chunk_size, Unset, Len(ch_out))
              e == FirstEmpty(run)
          IN  \A i \in 1..Len(ch_out) :
                 ch_out[i] = IF e = 0 \/ i < e THEN run[i][1]
                             ELSE IF i = e THEN run[i][2]
                             ELSE None)
    /\ [][(\E i \in 1..Len(ch_out) :
              is_none(ArrayChunkRun(ch_src, 0, ch_chunk_size, Unset, i)[i][1]))
            => (ch_calls' = ch_calls /\ ch_out' = Append(ch_out, None))]_vars

\* Chunk yielded a full chunk, then the partial chunk, then Empty
C12_Witness ==
    /\ Len(ch_out) >= 3
    /\ is_some(ch_out[Len(ch_out) - 2])
    /\ Len(unwrap(ch_out[Len(ch_out) - 2])) = ch_chunk_size
    /\ is_some(ch_out[Len(ch_out) - 1])
    /\ unwrap(ch_out[Len(ch_out) - 1]) # <<>>
    /\ Len(unwrap(ch_out[Len(ch_out) - 1])) < ch_chunk_size
    /\ is_none(ch_out[Len(ch_out)])

\* C38: every list yielded by Chunk.next is non-empty, with length between 1
\* and N; when the source length L is an exact multiple of N (including
\* L = 0), Chunk yields exactly L/N chunks and no trailing empty list.
C38_ChunkNonEmpty ==
    ch_src \in Lists =>
        /\ \A i \in 1..Len(ch_out) :
              is_some(ch_out[i]) =>
                  (Len(unwrap(ch_out[i])) >= 1 /\ Len(unwrap(ch_out[i])) <= ch_chunk_size)
        /\ (Len(ch_src) % ch_chunk_size = 0) =>
              \A i \in 1..Len(ch_out) :
                  is_some(ch_out[i]) <=> i <= Len(ch_src) \div ch_chunk_size

\* ============================================================== Peekable
\* Peekable.__init__
PeekableInit ==
    /\ pk_src \in Scripts
    /\ pk_calls = 0
    /\ pk_peek = None
    /\ pk_log = <<>>

next_clear_keep(pk) == pk

\* Peekable.next: the value `self.__peek = Option.none()` leaves in __peek
next_clear(pk) == None

\* Peekable.next as a function of the object's fields: the cached answer if
\* there is one, else the parent's next answer
Peekable_next(src, calls, pk) ==
    IF is_some(pk)
    THEN [ret |-> unwrap(pk), calls |-> calls, peek |-> next_clear(pk)]
    ELSE [ret |-> SrcNext(src, calls), calls |-> calls + 1, peek |-> next_clear(pk)]

peek_store_drop(pk) == None

\* Peekable.__peek_next: the value `self.__peek = Option.some(pk)` stores
peek_store(pk) == Some(pk)

\* Peekable.peek as a function of the object's fields: the cached answer if
\* there is one, else __peek_next pulls the parent and caches its answer
Peekable_peek(src, calls, pk) ==
    IF is_some(pk)
    THEN [ret |-> unwrap(pk), calls |-> calls, peek |-> pk]
    ELSE LET a == SrcNext(src, calls)
         IN  [ret |-> a, calls |-> calls + 1, peek |-> peek_store(a)]

\* Peekable.next
PeekableNext ==
    /\ Len(pk_log) < MaxPeekOps
    /\ LET r == Peekable_next(pk_src, pk_calls, pk_peek)
       IN  /\ pk_calls' = r.calls
           /\ pk_peek' = r.peek
           /\ pk_log' = Append(pk_log, <<"next", r.ret, r.calls>>)
    /\ UNCHANGED pk_src
    /\ Frame("pk")

\* Peekable.peek
PeekablePeek ==
    /\ Len(pk_log) < MaxPeekOps
    /\ LET r == Peekable_peek(pk_src, pk_calls, pk_peek)
       IN  /\ pk_calls' = r.calls
           /\ pk_peek' = r.peek
           /\ pk_log' = Append(pk_log, <<"peek", r.ret, r.calls>>)
    /\ UNCHANGED pk_src
    /\ Frame("pk")

SpecPeekableInit == PeekableInit /\ Parked("pk")

SpecPeekableNext == PeekableNext \/ PeekablePeek

SpecPeekable == SpecPeekableInit /\ [][SpecPeekableNext]_vars

\* the parent calls made before the i-th call of the log began
PkCallsBefore(i) == IF i = 1 THEN 0 ELSE pk_log[i - 1][3]

\* C13: consecutive peek() calls with no next() between them return the
\* same value and together call the parent's next exactly once (the first
\* of them calls it, the others do not); in every reachable state the parent
\* has been advanced at most one element beyond what Peekable.next returned.
C13_PeekIdempotent ==
    /\ \A i \in 1..Len(pk_log) :
          pk_log[i][1] = "peek" =>
              IF i = 1 \/ pk_log[i - 1][1] = "next"
              THEN pk_log[i][3] = PkCallsBefore(i) + 1
              ELSE /\ pk_log[i][2] = pk_log[i - 1][2]
                   /\ pk_log[i][3] = PkCallsBefore(i)
    /\ pk_calls <= Len(AnswersOf(pk_log, "next", Len(pk_log))) + 1

\* after a next, three peeks in a row saw a Present
C13_Witness ==
    /\ Len(pk_log) >= 4
    /\ pk_log[Len(pk_log) - 3][1] = "next"
    /\ \A i \in (Len(pk_log) - 2)..Len(pk_log) :
          pk_log[i][1] = "peek" /\ is_some(pk_log[i][2])

\* C14: for any interleaving of peek() and next(), the values returned by
\* Peekable.next are the values the parent alone would have returned to the
\* same number of next calls, and every peek() returns the value that the
\* immediately following next() returns.
C14_PeekableTransparent ==
    /\ LET nexts == AnswersOf(pk_log, "next", Len(pk_log))
       IN  \A k \in 1..Len(nexts) : nexts[k] = SrcNext(pk_src, k - 1)
    /\ \A i \in 1..(Len(pk_log) - 1) :
          (pk_log[i][1] = "peek" /\ pk_log[i + 1][1] = "next")
              => pk_log[i][2] = pk_log[i + 1][2]

\* a run that ends in a next and holds a next right after a peek and a next
\* right after a next, each with a Present
C14_Witness ==
    /\ Len(pk_log) >= 4
    /\ \E i \in 1..(Len(pk_log) - 1) :
          pk_log[i][1] = "peek" /\ pk_log[i + 1][1] = "next" /\ is_some(pk_log[i][2])
    /\ \E i \in 1..(Len(pk_log) - 1) :
          pk_log[i][1] = "next" /\ pk_log[i + 1][1] = "next" /\ is_some(pk_log[i + 1][2])
    /\ pk_log[Len(pk_log)][1] = "next"

\* =========================================================== Intersperse
\* Intersperse.__init__: wraps it.peekable()
IntersperseInit ==
    /\ is_src \in Scripts
    /\ is_sep \in Vals
    /\ is_calls = 0
    /\ is_peek = None
    /\ is_need_sep = FALSE
    /\ is_out = <<>>

sep_due_nopeek(need_sep, pk) == need_sep

\* Intersperse.next, IntersperseWith.next: the test
\* `self.__need_sep and self.__it.peek().is_some()` on the peeked answer
sep_due(need_sep, pk) == need_sep /\ is_some(pk)

\* Intersperse.next; peek is called only when __need_sep is set
IntersperseNext ==
    /\ Len(is_out) < MaxSepCalls
    /\ LET p == IF is_need_sep
                THEN Peekable_peek(is_src, is_calls, is_peek)
                ELSE [ret |-> None, calls |-> is_calls, peek |-> is_peek]
       IN  IF sep_due(is_need_sep, p.ret)
           THEN /\ is_need_sep' = FALSE
                /\ is_calls' = p.calls
                /\ is_peek' = p.peek
                /\ is_out' = Append(is_out, Some(is_sep))
           ELSE LET r == Peekable_next(is_src, p.calls, p.peek)
                IN  /\ is_need_sep' = TRUE
                    /\ is_calls' = r.calls
                    /\ is_peek' = r.peek
                    /\ is_out' = Append(is_out, r.ret)
    /\ UNCHANGED <<is_src, is_sep>>
    /\ Frame("is")

SpecIntersperseInit == IntersperseInit /\ Parked("is")

SpecIntersperseNext == IntersperseNext

SpecIntersperse == SpecIntersperseInit /\ [][SpecIntersperseNext]_vars

\* C15: over a finite source x1..xn and with separator s, Intersperse yields
\* x1, s, x2, s, ..., xn (2n-1 items when n >= 1, none when n = 0) and then
\* Empty; the separator is never the first and never the last item.
C15_Intersperse ==
    is_src \in Lists =>
        LET n == Len(is_src)
        IN  \A i \in 1..Len(is_out) :
                is_out[i] = IF i > 2 * n - 1 THEN None
                            ELSE IF i % 2 = 1 THEN is_src[(i + 1) \div 2]
                            ELSE Some(is_sep)

\* a list of two or more elements was drained to its Empty and called again
C15_Witness ==
    /\ is_src \in Lists
    /\ Len(is_src) >= 2
    /\ Len(is_out) > 2 * Len(is_src)

\* ======================================================= IntersperseWith
\* IntersperseWith.__init__: wraps it.peekable(); the closure is kept as the
\* results it gives, its last result standing for every later one
IntersperseWithInit ==
    /\ iw_src \in Scripts
    /\ iw_sep \in [1..MaxSeps -> Vals]
    /\ iw_calls = 0
    /\ iw_peek = None
    /\ iw_sep_calls = 0
    /\ iw_need_sep = FALSE
    /\ iw_out = <<>>

\* self.__sep(): the result of the closure's k-th call
sep_call(sep, k) == IF k <= Len(sep) THEN sep[k] ELSE sep[Len(sep)]

need_sep_set_never == FALSE

\* IntersperseWith.next: the value `self.__need_sep = True` stores
need_sep_set == TRUE

\* IntersperseWith.next; peek is called only when __need_sep is set
IntersperseWithNext ==
    /\ Len(iw_out) < MaxSepCalls
    /\ LET p == IF iw_need_sep
                THEN Peekable_peek(iw_src, iw_calls, iw_peek)
                ELSE [ret |-> None, calls |-> iw_calls, peek |-> iw_peek]
       IN  IF sep_due(iw_need_sep, p.ret)
           THEN /\ iw_need_sep' = FALSE
                /\ iw_calls' = p.calls
                /\ iw_peek' = p.peek
                /\ iw_sep_calls' = iw_sep_calls + 1
                /\ iw_out' = Append(iw_out, Some(sep_call(iw_sep, iw_sep_calls + 1)))
           ELSE LET r == Peekable_next(iw_src, p.calls, p.peek)
                IN  /\ iw_need_sep' = need_sep_set
                    /\ iw_calls' = r.calls
                    /\ iw_peek' = r.peek
                    /\ iw_sep_calls' = iw_sep_calls
                    /\ iw_out' = Append(iw_out, r.ret)
    /\ UNCHANGED <<iw_src, iw_sep>>
    /\ Frame("iw")

SpecIntersperseWithInit == IntersperseWithInit /\ Parked("iw")

SpecIntersperseWithNext == IntersperseWithNext

SpecIntersperseWith == SpecIntersperseWithInit /\ [][SpecIntersperseWithNext]_vars

\* IntersperseWith.next has answered Empty
IwDrained == \E i \in 1..Len(iw_out) : is_none(iw_out[i])

\* the last answer of IntersperseWith.next is its first Empty
IwJustDrained ==
    /\ iw_out # <<>>
    /\ is_none(iw_out[Len(iw_out)])
    /\ \A i \in 1..(Len(iw_out) - 1) : is_some(iw_out[i])

\* C16: draining IntersperseWith over a source that yields n items calls the
\* separator closure exactly max(n-1, 0) times, once for each separator
\* emitted between two adjacent items: while it is being drained the k-th
\* closure result is the 2k-th answer and the closure was called once per
\* such answer; when drained the closure was called max(n-1, 0) times; over
\* a finite source it is not called after that either.
C16_IntersperseWithCalls ==
    LET n == Len(UntilNone(iw_src))
    IN  /\ ~IwDrained =>
              /\ iw_sep_calls = Len(iw_out) \div 2
              /\ iw_sep_calls <= (IF n = 0 THEN 0 ELSE n - 1)
              /\ \A k \in 1..iw_sep_calls : iw_out[2 * k] = Some(sep_call(iw_sep, k))
        /\ (IwDrained /\ (iw_src \in Lists \/ IwJustDrained))
              => iw_sep_calls = (IF n = 0 THEN 0 ELSE n - 1)

\* a source of three items was drained, with closure results that differ, and
\* was called again after its Empty
C16_Witness ==
    /\ iw_src \in Lists
    /\ Len(iw_src) = 3
    /\ iw_sep[1] # iw_sep[2]
    /\ Len(iw_out) > 6

\* ======================================================= advance_by, nth
\* Result: Ok(None) / Err(k)
Ok == <<"Ok">>
Err(k) == <<"Err", k>>

\* an iterator on which next, advance_by and nth are called
AdvanceInit ==
    /\ adv_src \in Scripts
    /\ adv_calls = 0
    /\ adv_nops = 0
    /\ adv_last = [op |-> "", n |-> 0, from |-> 0, ret |-> None, to |-> 0]

err_left_done(n, i) == i

\* IterMeta.advance_by: the value of `Err(n - i)`
err_left(n, i) == n - i

\* IterMeta.advance_by, the loop `for i in range(n)` from round i on
RECURSIVE advance_by_loop(_, _, _, _)
advance_by_loop(src, calls, n, i) ==
    IF i = n THEN [ret |-> Ok, calls |-> calls]
    ELSE IF is_none(SrcNext(src, calls))
         THEN [ret |-> Err(err_left(n, i)), calls |-> calls + 1]
         ELSE advance_by_loop(src, calls + 1, n, i + 1)

\* IterMeta.advance_by as a function of the iterator's position: the result
\* and the new position
advance_by(src, calls, n) == advance_by_loop(src, calls, n, 0)

\* IterMeta.nth, the loop `for i in range(n)` from round i on and the
\* `return self.next()` after it
RECURSIVE nth_loop(_, _, _, _)
nth_loop(src, calls, n, i) ==
    IF i = n THEN [ret |-> SrcNext(src, calls), calls |-> calls + 1]
    ELSE IF is_none(SrcNext(src, calls))
         THEN [ret |-> None, calls |-> calls + 1]
         ELSE nth_loop(src, calls + 1, n, i + 1)

nth_then_next(src, calls, n) ==
    LET a == advance_by(src, calls, n)
    IN  [ret |-> SrcNext(src, a.calls), calls |-> a.calls + 1]

\* IterMeta.nth as a function of the iterator's position
nth(src, calls, n) == nth_loop(src, calls, n, 0)

\* IterMeta.next on the iterator
AdvNext ==
    /\ adv_nops < MaxAdvOps
    /\ adv_nops' = adv_nops + 1
    /\ adv_calls' = adv_calls + 1
    /\ adv_last' = [op |-> "next", n |-> 0, from |-> adv_calls,
                    ret |-> SrcNext(adv_src, adv_calls), to |-> adv_calls + 1]
    /\ UNCHANGED adv_src
    /\ Frame("adv")

\* IterMeta.advance_by
AdvanceBy ==
    /\ adv_nops < MaxAdvOps
    /\ \E n \in 0..MaxAdv :
          LET r == advance_by(adv_src, adv_calls, n)
          IN  /\ adv_calls' = r.calls
              /\ adv_last' = [op |-> "advance_by", n |-> n, from |-> adv_calls,
                              ret |-> r.ret, to |-> r.calls]
    /\ adv_nops' = adv_nops + 1
    /\ UNCHANGED adv_src
    /\ Frame("adv")

\* IterMeta.nth
Nth ==
    /\ adv_nops < MaxAdvOps
    /\ \E n \in 0..MaxAdv :
          LET r == nth(adv_src, adv_calls, n)
          IN  /\ adv_calls' = r.calls
              /\ adv_last' = [op |-> "nth", n |-> n, from |-> adv_calls,
                              ret |-> r.ret, to |-> r.calls]
    /\ adv_nops' = adv_nops + 1
    /\ UNCHANGED adv_src
    /\ Frame("adv")

SpecAdvanceInit == AdvanceInit /\ Parked("adv")

SpecAdvanceNext == AdvNext \/ AdvanceBy \/ Nth

SpecAdvance == SpecAdvanceInit /\ [][SpecAdvanceNext]_vars

\* the elements among the first `calls` answers of a script
Consumed(src, calls) ==
    Len(Payloads(SubSeq(src, 1, IF calls < Len(src) THEN calls ELSE Len(src))))

\* the elements a script has left after `calls` answers, up to its next Empty
Remaining(src, calls) ==
    IF calls < Len(src) THEN Len(UntilNone(SubSeq(src, calls + 1, Len(src)))) ELSE 0

\* C17, as stated: in every iterator state and for every n >= 0, nth(n)
\* returns the value that next() returns after advance_by(n) and leaves the
\* iterator with the same number of elements consumed.
C17_NthIsAdvanceThenNext ==
    adv_last.op = "nth" =>
        LET a == advance_by(adv_src, adv_last.from, adv_last.n)
        IN  /\ adv_last.ret = SrcNext(adv_src, a.calls)
            /\ Consumed(adv_src, adv_last.to) = Consumed(adv_src, a.calls + 1)

\* C17, amended: when advance_by(n) returns Ok, nth(n) returns the value
\* that next() returns after it and leaves the iterator where that next()
\* leaves it; when advance_by(n) returns Err, nth(n) returns Empty and
\* leaves the iterator where advance_by(n) left it, with no further next().
C17_NthAmended ==
    adv_last.op = "nth" =>
        LET a == advance_by(adv_src, adv_last.from, adv_last.n)
        IN  IF a.ret = Ok
            THEN /\ adv_last.ret = SrcNext(adv_src, a.calls)
                 /\ adv_last.to = a.calls + 1
            ELSE /\ adv_last.ret = None
                 /\ adv_last.to = a.calls

\* nth(n) ran into an Empty of an iterator that has a Present after it
C17_Witness ==
    /\ adv_last.op = "nth"
    /\ advance_by(adv_src, adv_last.from, adv_last.n).ret # Ok
    /\ adv_last.to < Len(adv_src)
    /\ is_some(adv_src[adv_last.to + 1])

\* C18: advance_by(n) on an iterator with r remaining elements returns
\* Ok(None) after consuming exactly n elements when n <= r, and otherwise
\* consumes all r elements and returns Err(n - r) with 0 < n - r <= n;
\* advance_by(0) returns Ok(None) and consumes nothing, also on an empty
\* iterator.
C18_AdvanceBy ==
    adv_last.op = "advance_by" =>
        LET n == adv_last.n
            r == Remaining(adv_src, adv_last.from)
            eaten == Consumed(adv_src, adv_last.to) - Consumed(adv_src, adv_last.from)
        IN  /\ n <= r => (adv_last.ret = Ok /\ eaten = n /\ adv_last.to = adv_last.from + n)
            /\ n > r => (adv_last.ret = Err(n - r) /\ eaten = r /\ 0 < n - r /\ n - r <= n)
            /\ n = 0 => (adv_last.ret = Ok /\ adv_last.to = adv_last.from)

\* advance_by ran out part of the way: some elements were consumed and an
\* Err smaller than n came back
C18_Witness ==
    /\ adv_last.op = "advance_by"
    /\ Remaining(adv_src, adv_last.from) > 0
    /\ adv_last.n > Remaining(adv_src, adv_last.from)
    /\ adv_last.ret = Err(adv_last.n - Remaining(adv_src, adv_last.from))

\* =============================================================== Flatten
\* The items of an outer iterator: a value that is not iterable, a Python
\* iterable (a list), or an IterMeta (given by its script).
Plain(v) == <<"Plain", v>>
Iterable(l) == <<"Iterable", l>>
ItMeta(s) == <<"ItMeta", s>>

InnerLists == SeqsUpTo(Vals, MaxInner)
InnerScripts == SeqsUpTo(Answers, MaxInner)
Items == {Plain(v) : v \in Vals} \cup {Iterable(l) : l \in InnerLists}
            \cup {ItMeta(s) : s \in InnerScripts}

\* isinstance(x, IterMeta)
isinstance_IterMeta(x) == x[1] = "ItMeta"

isinstance_Iterable_never(x) == FALSE

\* isinstance(x, (collections.abc.Iterator, collections.abc.Iterable)): true
\* of every object whose class defines __iter__, which Option and IterMeta do
isinstance_Iterable(x) == x[1] \in {"Iterable", "ItMeta", "Some", "None"}

\* an iterator in its initial state, given by its script
iterator(s) == [src |-> s, calls |-> 0]

\* IterMeta.iter(v) raises TypeError: v is neither an iterator nor an
\* iterable
iter_raises(v) == v[1] \notin {"Iterable", "ItMeta"}

\* IterMeta.iter(v): _IterIterable over a list answers its elements in
\* order; over an IterMeta it answers what the IterMeta's next answers
IterMeta_iter(v) ==
    IF v[1] = "Iterable" THEN iterator([i \in 1..Len(v[2]) |-> Some(v[2][i])])
    ELSE IF v[1] = "ItMeta" THEN iterator(v[2])
    ELSE Raise

\* Flatten.__init__
FlattenInit ==
    /\ fl_src \in SeqsUpTo({Some(x) : x \in Items} \cup {None}, MaxOuter)
    /\ fl_calls = 0
    /\ fl_current_it = None
    /\ fl_out = <<>>

RECURSIVE flatten_next(_, _, _)
RECURSIVE flatten_it_next(_, _)

\* Flatten.__it_next with the outer iterator at `calls`: the answer, the
\* outer iterator's new position and the new __current_it
flatten_it_next(src, calls) ==
    LET _nxt == SrcNext(src, calls)
    IN  IF is_some(_nxt)
        THEN LET nxt == unwrap(_nxt)
             IN  IF isinstance_IterMeta(nxt)
                 THEN flatten_next(src, calls + 1, Some(iterator(nxt[2])))
                 ELSE IF isinstance_Iterable(nxt)
                 THEN flatten_next(src, calls + 1, Some(IterMeta_iter(nxt)))
                 ELSE [ret |-> Some(nxt[2]), calls |-> calls + 1, cur |-> None]
        ELSE [ret |-> None, calls |-> calls + 1, cur |-> None]

\* Flatten.next
flatten_next(src, calls, cur) ==
    LET x == IF is_some(cur) THEN SrcNext(unwrap(cur).src, unwrap(cur).calls) ELSE None
    IN  IF is_some(cur) /\ is_some(x)
        THEN [ret |-> x, calls |-> calls,
              cur |-> Some([unwrap(cur) EXCEPT !.calls = @ + 1])]
        ELSE flatten_it_next(src, calls)

\* Flatten.next
FlattenNext ==
    /\ Len(fl_out) < MaxFlatCalls
    /\ LET r == flatten_next(fl_src, fl_calls, fl_current_it)
       IN  /\ fl_calls' = r.calls
           /\ fl_current_it' = r.cur
           /\ fl_out' = Append(fl_out, r.ret)
    /\ UNCHANGED fl_src
    /\ Frame("fl")

SpecFlattenInit == FlattenInit /\ Parked("fl")

SpecFlattenNext == FlattenNext

SpecFlatten == SpecFlattenInit /\ [][SpecFlattenNext]_vars

\* what one answer of the outer iterator contributes: the elements of an
\* iterable item in order (up to the first Empty of an IterMeta), the item
\* itself if it is not iterable, and Empty for the outer iterator's Empty
Contribution(a) ==
    IF is_none(a) THEN <<None>>
    ELSE IF unwrap(a)[1] = "Plain" THEN <<Some(unwrap(a)[2])>>
    ELSE IF unwrap(a)[1] = "Iterable"
         THEN [i \in 1..Len(unwrap(a)[2]) |-> Some(unwrap(a)[2][i])]
    ELSE UntilNone(unwrap(a)[2])

\* the contributions of the answers of an outer script, in order
RECURSIVE Flattened(_)
Flattened(s) == IF s = <<>> THEN <<>> ELSE Contribution(Head(s)) \o Flattened(Tail(s))

\* C20: Flatten yields, for each outer item in order, the elements of that
\* item in order when it is an iterator or iterable (an empty inner one
\* contributes nothing and the outer is pulled again), or the item itself
\* when it is not iterable; Flatten.next returns Empty only when the outer
\* iterator has returned Empty in that call.
C20_Flatten ==
    /\ [](LET expected == Flattened(fl_src)
          IN  \A i \in 1..Len(fl_out) :
                 fl_out[i] = IF i <= Len(expected) THEN expected[i] ELSE None)
    /\ [][(fl_out' # fl_out /\ is_none(fl_out'[Len(fl_out')]))
            => (fl_calls' > fl_calls /\ is_none(SrcNext(fl_src, fl_calls' - 1)))]_vars

\* an empty inner iterable came first and one of two elements after it; its
\* elements and the final Empty were answered
C20_Witness ==
    /\ Len(fl_src) = 2
    /\ is_some(fl_src[1])
    /\ unwrap(fl_src[1])[1] # "Plain"
    /\ Contribution(fl_src[1]) = <<>>
    /\ is_some(fl_src[2])
    /\ unwrap(fl_src[2])[1] # "Plain"
    /\ Len(Contribution(fl_src[2])) = 2
    /\ Len(fl_out) = 3

\* =============================================================== FlatMap
FmElems == 1..MaxFmElem

\* FlatMap.__init__
FlatMapInit ==
    /\ fm_src \in SeqsUpTo({Some(x) : x \in FmElems} \cup {None}, MaxOuter)
    /\ fm_func \in [FmElems -> Items]
    /\ fm_calls = 0
    /\ fm_current_it = None
    /\ fm_out = <<>>

RECURSIVE flat_map_next(_, _, _, _)
RECURSIVE flat_map_it_next(_, _, _)

\* FlatMap.__it_next with the parent at `calls`. The isinstance tests are
\* made on nxt, the Option the parent answered, not on nxtw, the result of
\* the function: an Option is no IterMeta and is iterable, so the second
\* branch is taken whatever nxtw is, and IterMeta.iter(nxtw) raises TypeError
\* for a result that is not iterable.
flat_map_it_next(src, calls, fn) ==
    LET nxt == SrcNext(src, calls)
    IN  IF is_some(nxt)
        THEN LET nxtw == fn[unwrap(nxt)]
             IN  IF isinstance_IterMeta(nxt)
                 THEN [ret |-> Raise, calls |-> calls + 1, cur |-> Some(nxt)]
                 ELSE IF isinstance_Iterable(nxt)
                 THEN IF iter_raises(nxtw)
                      THEN [ret |-> Raise, calls |-> calls + 1, cur |-> None]
                      ELSE flat_map_next(src, calls + 1, Some(IterMeta_iter(nxtw)), fn)
                 ELSE [ret |-> Some(nxt), calls |-> calls + 1, cur |-> None]
        ELSE [ret |-> None, calls |-> calls + 1, cur |-> None]

\* FlatMap.next
flat_map_next(src, calls, cur, fn) ==
    LET x == IF is_some(cur) THEN SrcNext(unwrap(cur).src, unwrap(cur).calls) ELSE None
    IN  IF is_some(cur) /\ is_some(x)
        THEN [ret |-> x, calls |-> calls,
              cur |-> Some([unwrap(cur) EXCEPT !.calls = @ + 1])]
        ELSE flat_map_it_next(src, calls, fn)

\* FlatMap.next
FlatMapNext ==
    /\ Len(fm_out) < MaxFlatCalls
    /\ LET r == flat_map_next(fm_src, fm_calls, fm_current_it, fm_func)
       IN  /\ fm_calls' = r.calls
           /\ fm_current_it' = r.cur
           /\ fm_out' = Append(fm_out, r.ret)
    /\ UNCHANGED <<fm_src, fm_func>>
    /\ Frame("fm")

SpecFlatMapInit == FlatMapInit /\ Parked("fm")

SpecFlatMapNext == FlatMapNext

SpecFlatMap == SpecFlatMapInit /\ [][SpecFlatMapNext]_vars

\* Option.map
Option_map(o, fn) == IF is_some(o) THEN Some(fn[unwrap(o)]) ELSE None

\* Map.next, call by call: the script of the iterator map(fn) over a parent
Map_script(src, fn) == [i \in 1..Len(src) |-> Option_map(src[i], fn)]

\* the answers of the first k calls of next on a Flatten
RECURSIVE FlattenRun(_, _, _, _)
FlattenRun(src, calls, cur, k) ==
    IF k = 0 THEN <<>>
    ELSE LET r == flatten_next(src, calls, cur)
         IN  <<r.ret>> \o FlattenRun(src, r.calls, r.cur, k - 1)

\* C19: for every function f, flat_map(f) yields the same sequence as
\* map(f).flatten(): a result of f that is an iterator or iterable is
\* flattened one level into its elements, and a result of f that is not
\* iterable is yielded directly as a single item.
C19_FlatMapIsMapFlatten ==
    fm_out = FlattenRun(Map_script(fm_src, fm_func), 0, None, Len(fm_out))

\* C19 for the functions whose every result is an iterator or an iterable
C19_IterableResults ==
    (\A x \in FmElems : fm_func[x][1] # "Plain") => C19_FlatMapIsMapFlatten

\* ================================================ siter (_IterIterable)
\* What a call of a Python iterator's __next__ can do: return a value, raise
\* StopIteration, raise another exception derived from Exception, or raise
\* an exception derived from BaseException only (KeyboardInterrupt,
\* SystemExit, GeneratorExit).
Yield(v) == <<"Yield", v>>
StopIteration == <<"StopIteration">>
PyException == <<"Exception">>
PyBaseException == <<"BaseException">>
Outcomes == {Yield(v) : v \in Vals} \cup {StopIteration, PyException, PyBaseException}

\* iter(list): the list's elements, StopIteration after the last one
list_iterator(l) == [i \in 1..Len(l) |-> Yield(l[i])]

\* self.__iter.__next__ on its (pos+1)-th call; after the scripted outcomes
\* the iterator raises StopIteration
py_next(src, pos) == IF pos < Len(src) THEN src[pos + 1] ELSE StopIteration

\* siter / IterMeta.iter over a Python iterable or iterator, and
\* _IterIterable.__init__ / _IterIterator.__init__
DefaultIterInit ==
    /\ si_src \in SeqsUpTo(Outcomes, MaxLen)
    /\ si_pos = 0
    /\ si_out = <<>>

Result_catch_stop_only(o) ==
    IF o[1] = "Yield" THEN <<"Ok", o[2]>>
    ELSE IF o[1] = "StopIteration" THEN Err(o[1])
    ELSE Raise

\* Result.catch(func) on what func does: `except Exception` catches
\* StopIteration and every other exception derived from Exception; an
\* exception derived from BaseException only passes through
Result_catch(o) ==
    IF o[1] = "Yield" THEN <<"Ok", o[2]>>
    ELSE IF o[1] \in {"StopIteration", "Exception"} THEN Err(o[1])
    ELSE Raise

Result_ok_lost(r) == None

\* Result.ok
Result_ok(r) == IF r[1] = "Ok" THEN Some(r[2]) ELSE None

\* _IterIterable.next / _IterIterator.next as a function of the Python
\* iterator's position
default_iter_next(src, pos) ==
    LET r == Result_catch(py_next(src, pos))
    IN  IF r = Raise THEN Raise ELSE Result_ok(r)

\* _IterIterable.next / _IterIterator.next
DefaultIterNext ==
    /\ Len(si_out) < MaxLen + 2
    /\ si_pos' = si_pos + 1
    /\ si_out' = Append(si_out, default_iter_next(si_src, si_pos))
    /\ UNCHANGED si_src
    /\ Frame("si")

SpecDefaultIterInit == DefaultIterInit /\ Parked("si")

SpecDefaultIterNext == DefaultIterNext

SpecDefaultIter == SpecDefaultIterInit /\ [][SpecDefaultIterNext]_vars

\* the Python iterator is the iterator of a finite sequence
SiFromList == \A i \in 1..Len(si_src) : si_src[i][1] = "Yield"

\* C22: an iterator built by siter from a finite sequence of length L
\* returns Present(i-th element) on its i-th next call for i = 1..L, in
\* source order and each element exactly once, and returns Empty on call
\* L+1 (and on every call after it).
C22_SiterOrder ==
    SiFromList =>
        \A i \in 1..Len(si_out) :
            si_out[i] = IF i <= Len(si_src) THEN Some(si_src[i][2]) ELSE None

\* a sequence of two or more elements, not all equal, read to its Empty
C22_Witness ==
    /\ SiFromList
    /\ Len(si_src) >= 2
    /\ si_src[1] # si_src[2]
    /\ Len(si_out) = Len(si_src) + 1

\* C28, as stated: whatever exception the pull of the Python iterator
\* raises, next returns Empty and the exception does not reach the caller.
C28_AnyExceptionIsEmpty ==
    \A i \in 1..Len(si_out) :
        py_next(si_src, i - 1)[1] # "Yield" => si_out[i] = None

\* C28, amended: if the pull raises StopIteration or another exception
\* derived from Exception, next returns Empty and nothing reaches the
\* caller; an exception derived from BaseException only reaches the caller.
C28_ExceptionIsEmpty ==
    \A i \in 1..Len(si_out) :
        LET o == py_next(si_src, i - 1)
        IN  /\ o[1] \in {"StopIteration", "Exception"} => si_out[i] = None
            /\ o[1] = "BaseException" => si_out[i] = Raise
            /\ o[1] = "Yield" => si_out[i] = Some(o[2])

\* a pull raised an exception other than StopIteration, next answered Empty,
\* and the next pull returned an element
C28_Witness ==
    /\ Len(si_out) >= 2
    /\ py_next(si_src, Len(si_out) - 2) = PyException
    /\ si_out[Len(si_out) - 1] = None
    /\ is_some(si_out[Len(si_out)])

\* ================================================================== Take
\* Take.__init__
TakeInit ==
    /\ take_src \in Scripts
    /\ take_n \in 0..MaxTake
    /\ take_remain = take_n
    /\ take_calls = 0
    /\ take_out = <<>>

take_decrement_not(remain) == remain

\* Take.next: `self.__remain -= 1`
take_decrement(remain) == remain - 1

\* Take.next as a function of the object's fields
take_next(src, calls, remain) ==
    IF remain # 0
    THEN [ret |-> SrcNext(src, calls), calls |-> calls + 1,
          remain |-> take_decrement(remain)]
    ELSE [ret |-> None, calls |-> calls, remain |-> remain]

\* Take.next
TakeNext ==
    /\ Len(take_out) < MaxTake + 2
    /\ LET r == take_next(take_src, take_calls, take_remain)
       IN  /\ take_calls' = r.calls
           /\ take_remain' = r.remain
           /\ take_out' = Append(take_out, r.ret)
    /\ UNCHANGED <<take_src, take_n>>
    /\ Frame("take")

SpecTakeInit == TakeInit /\ Parked("take")

SpecTakeNext == TakeNext

SpecTake == SpecTakeInit /\ [][SpecTakeNext]_vars

\* C23: Take(n) with n >= 0 yields the first min(n, L) elements of its
\* source in order and then Empty; over any number of Take.next calls the
\* parent's next is called at most n times, so every element after the n-th
\* stays unconsumed in the parent.
C23_Take ==
    /\ take_src \in Lists =>
          LET m == IF take_n < Len(take_src) THEN take_n ELSE Len(take_src)
          IN  \A i \in 1..Len(take_out) :
                 take_out[i] = IF i <= m THEN take_src[i] ELSE None
    /\ take_calls <= take_n

\* a list longer than n >= 1: its first n elements and two Empty were
\* answered, and the parent still holds the rest
C23_Witness ==
    /\ take_src \in Lists
    /\ take_n >= 1
    /\ Len(take_src) > take_n
    /\ Len(take_out) = take_n + 2
    /\ take_calls = take_n

\* ================================================================== Skip
\* Skip.__init__
SkipInit ==
    /\ skip_src \in Scripts
    /\ skip_n \in 0..MaxTake
    /\ skip_skipped = FALSE
    /\ skip_calls = 0
    /\ skip_first = 0
    /\ skip_out = <<>>

skip_done_not == FALSE

\* Skip.next: the value `self.__skipped = True` stores
skip_done == TRUE

\* Skip.next, the loop `for _ in range(self.__skip_n)` with `left` rounds
\* to run, and the statements after it
RECURSIVE skip_loop(_, _, _)
skip_loop(src, calls, left) ==
    IF left = 0
    THEN [ret |-> SrcNext(src, calls), calls |-> calls + 1, skipped |-> skip_done]
    ELSE IF is_none(SrcNext(src, calls))
         THEN [ret |-> None, calls |-> calls + 1, skipped |-> skip_done]
         ELSE skip_loop(src, calls + 1, left - 1)

\* Skip.next as a function of the object's fields
skip_next(src, calls, skipped, n) ==
    IF skipped
    THEN [ret |-> SrcNext(src, calls), calls |-> calls + 1, skipped |-> skipped]
    ELSE skip_loop(src, calls, n)

\* Skip.next
SkipNext ==
    /\ Len(skip_out) < MaxCalls
    /\ LET r == skip_next(skip_src, skip_calls, skip_skipped, skip_n)
       IN  /\ skip_calls' = r.calls
           /\ skip_skipped' = r.skipped
           /\ skip_first' = IF skip_out = <<>> THEN r.calls - skip_calls ELSE skip_first
           /\ skip_out' = Append(skip_out, r.ret)
    /\ UNCHANGED <<skip_src, skip_n>>
    /\ Frame("skip")

SpecSkipInit == SkipInit /\ Parked("skip")

SpecSkipNext == SkipNext

SpecSkip == SpecSkipInit /\ [][SpecSkipNext]_vars

\* C24: Skip(n) over a finite source of length L yields the source elements
\* n+1..L in order (nothing when L <= n) and then Empty; up to n elements
\* are discarded during the first Skip.next only, which stops discarding
\* early if the parent returns Empty; every later call passes straight
\* through to the parent, with one parent call and the parent's answer.
C24_Skip ==
    /\ [](skip_src \in Lists =>
            \A i \in 1..Len(skip_out) :
               skip_out[i] = IF skip_n + i <= Len(skip_src)
                             THEN skip_src[skip_n + i] ELSE None)
    /\ [](skip_out # <<>> =>
            skip_first = IF Remaining(skip_src, 0) >= skip_n
                         THEN skip_n + 1 ELSE Remaining(skip_src, 0) + 1)
    /\ [][skip_out # <<>> =>
            /\ skip_calls' = skip_calls + 1
            /\ skip_out' = Append(skip_out, SrcNext(skip_src, skip_calls))]_vars

\* a list longer than n >= 1: the elements after the n-th and an Empty were
\* answered
C24_Witness ==
    /\ skip_src \in Lists
    /\ skip_n >= 1
    /\ Len(skip_src) > skip_n
    /\ Len(skip_out) > Len(skip_src) - skip_n

\* ============================================================ MapWindows
\* MapWindows.__init__: __const_len >= 1, an empty deque in __buffer
MapWindowsInit ==
    /\ mw_src \in Scripts
    /\ mw_const_len \in 1..MaxWindow
    /\ mw_calls = 0
    /\ mw_it = "Some"
    /\ mw_buffer = Some(<<>>)
    /\ mw_fcalls = 0
    /\ mw_out = <<>>

\* self.__func(buf): the result of the function for a window
func_of(buf) == <<"f", buf>>

window_slide_grow(buf, x) == Append(buf, x)

\* MapWindows.__push_window: `buf.popleft(); buf.append(x)`
window_slide(buf, x) == Append(Tail(buf), x)

\* MapWindows.__push_window: the value `self.__buffer = Option.none()` stores
buffer_clear(buf) == None

push_idle_restart(calls, it, buffer) ==
    [calls |-> calls, it |-> "Some", buffer |-> Some(<<>>)]

\* MapWindows.__push_window when __buffer or __it is Empty: nothing is done
push_idle(calls, it, buffer) == [calls |-> calls, it |-> it, buffer |-> buffer]

\* MapWindows.__push_window, the loop that fills the first window
RECURSIVE window_fill(_, _, _, _)
window_fill(src, calls, buf, const_len) ==
    IF Len(buf) < const_len
    THEN LET x == SrcNext(src, calls)
         IN  IF is_some(x)
             THEN window_fill(src, calls + 1, Append(buf, unwrap(x)), const_len)
             ELSE [buf |-> buf, calls |-> calls + 1]
    ELSE [buf |-> buf, calls |-> calls]

\* MapWindows.__push_window as a function of the object's fields
push_window(src, calls, const_len, it, buffer) ==
    IF is_some(buffer) /\ it = "Some"
    THEN LET buf == unwrap(buffer)
         IN  IF Len(buf) < const_len
             THEN LET w == window_fill(src, calls, buf, const_len)
                  IN  IF Len(w.buf) < const_len
                      THEN [calls |-> w.calls, it |-> "None", buffer |-> buffer_clear(w.buf)]
                      ELSE [calls |-> w.calls, it |-> it, buffer |-> Some(w.buf)]
             ELSE LET x == SrcNext(src, calls)
                  IN  IF is_some(x)
                      THEN [calls |-> calls + 1, it |-> it,
                            buffer |-> Some(window_slide(buf, unwrap(x)))]
                      ELSE [calls |-> calls + 1, it |-> "None", buffer |-> buffer_clear(buf)]
    ELSE push_idle(calls, it, buffer)

\* MapWindows.next
MapWindowsNext ==
    /\ Len(mw_out) < MaxCalls
    /\ LET p == push_window(mw_src, mw_calls, mw_const_len, mw_it, mw_buffer)
       IN  /\ mw_calls' = p.calls
           /\ mw_it' = p.it
           /\ mw_buffer' = p.buffer
           /\ mw_fcalls' = IF is_some(p.buffer) THEN mw_fcalls + 1 ELSE mw_fcalls
           /\ mw_out' = Append(mw_out, IF is_some(p.buffer)
                                       THEN Some(func_of(unwrap(p.buffer)))
                                       ELSE None)
    /\ UNCHANGED <<mw_src, mw_const_len>>
    /\ Frame("mw")

SpecMapWindowsInit == MapWindowsInit /\ Parked("mw")

SpecMapWindowsNext == MapWindowsNext

SpecMapWindows == SpecMapWindowsInit /\ [][SpecMapWindowsNext]_vars

\* the items the source yields, up to its first Empty
MwItems == Payloads(UntilNone(mw_src))

\* the number of windows of size N over the k items: max(k - N + 1, 0)
MwCount ==
    IF Len(MwItems) >= mw_const_len THEN Len(MwItems) - mw_const_len + 1 ELSE 0

\* C25: for a source that yields k items and a window size N >= 1,
\* MapWindows yields exactly max(k - N + 1, 0) results, the i-th being f
\* applied to the N consecutive source elements i .. i+N-1 in source order.
C25_MapWindows ==
    \A i \in 1..Len(mw_out) :
        mw_out[i] = IF i <= MwCount
                    THEN Some(func_of(SubSeq(MwItems, i, i + mw_const_len - 1)))
                    ELSE None

\* three items, not all equal, under a window of two: both windows and the
\* Empty after them were answered
C25_Witness ==
    /\ Len(MwItems) = 3
    /\ MwItems[1] # MwItems[2]
    /\ mw_const_len = 2
    /\ Len(mw_out) = 3

\* C26: once MapWindows.next has returned Empty, every later
\* MapWindows.next returns Empty and calls neither the parent's next nor f
\* again, also when the parent could resume.
C26_MapWindowsFused ==
    [][(mw_out # <<>> /\ is_none(mw_out[Len(mw_out)]))
        => /\ mw_out' = Append(mw_out, None)
           /\ mw_calls' = mw_calls
           /\ mw_fcalls' = mw_fcalls]_vars

\* the source ran out while sliding, MapWindows was called again after its
\* Empty, and the parent has a Present left to give
C26_Witness ==
    /\ Len(mw_out) >= 3
    /\ is_some(mw_out[1])
    /\ is_none(mw_out[Len(mw_out) - 1])
    /\ mw_calls < Len(mw_src)
    /\ is_some(mw_src[mw_calls + 1])

\* ============================================================== OnceWith
\* Ok(v)
Ok_of(v) == <<"Ok", v>>

\* once_with / OnceWith.__init__: the closure is stored, not called
OnceWithInit ==
    /\ ow_val \in Vals
    /\ ow_func = "Some"
    /\ ow_fcalls = 0
    /\ ow_log = <<>>

once_taken_not == "Some"

\* OnceWith: the value `self.__func = Option.none()` stores
once_taken == "None"

\* OnceWith.next as a function of __func: the result, the new __func and
\* the number of closure calls made
once_next(fn, val) ==
    IF fn = "Some"
    THEN [ret |-> Some(val), fn |-> once_taken, called |-> 1]
    ELSE [ret |-> None, fn |-> fn, called |-> 0]

\* OnceWith.nth
once_nth(fn, val, n) ==
    IF fn = "None" THEN [ret |-> None, fn |-> fn, called |-> 0]
    ELSE IF n > 0 THEN [ret |-> None, fn |-> once_taken, called |-> 0]
    ELSE [ret |-> Some(val), fn |-> once_taken, called |-> 1]

\* OnceWith.next_chunk; `assert n > 0` fails for n = 0
once_next_chunk(fn, val, n) ==
    IF n <= 0 THEN [ret |-> Raise, fn |-> fn, called |-> 0]
    ELSE IF n > 1
    THEN [ret |-> Err(IF fn = "Some" THEN <<val>> ELSE <<>>),
          fn |-> once_taken, called |-> IF fn = "Some" THEN 1 ELSE 0]
    ELSE [ret |-> IF fn = "Some" THEN Ok_of(<<val>>) ELSE Err(<<>>),
          fn |-> once_taken, called |-> IF fn = "Some" THEN 1 ELSE 0]

once_err_rest_all(n) == n

\* OnceWith.advance_by: the steps `Result.of_err(n - 1)` reports as not
\* advanced
once_err_rest(n) == n - 1

\* OnceWith.advance_by
once_advance_by(fn, val, n) ==
    IF n = 0 THEN [ret |-> Ok, fn |-> fn, called |-> 0]
    ELSE IF fn = "None" /\ n > 0 THEN [ret |-> Err(n), fn |-> fn, called |-> 0]
    ELSE [ret |-> IF n = 1 THEN Ok ELSE Err(once_err_rest(n)),
          fn |-> once_taken, called |-> 0]

\* OnceWith.next
OnceWithNext ==
    /\ Len(ow_log) < MaxOnceOps
    /\ LET r == once_next(ow_func, ow_val)
       IN  /\ ow_func' = r.fn
           /\ ow_fcalls' = ow_fcalls + r.called
           /\ ow_log' = Append(ow_log, <<"next", 0, r.ret, ow_func, ow_fcalls + r.called>>)
    /\ UNCHANGED ow_val
    /\ Frame("ow")

\* OnceWith.nth
OnceWithNth ==
    /\ Len(ow_log) < MaxOnceOps
    /\ \E n \in 0..MaxOnceArg :
          LET r == once_nth(ow_func, ow_val, n)
          IN  /\ ow_func' = r.fn
              /\ ow_fcalls' = ow_fcalls + r.called
              /\ ow_log' = Append(ow_log, <<"nth", n, r.ret, ow_func, ow_fcalls + r.called>>)
    /\ UNCHANGED ow_val
    /\ Frame("ow")

\* OnceWith.next_chunk
OnceWithNextChunk ==
    /\ Len(ow_log) < MaxOnceOps
    /\ \E n \in 0..MaxOnceArg :
          LET r == once_next_chunk(ow_func, ow_val, n)
          IN  /\ ow_func' = r.fn
              /\ ow_fcalls' = ow_fcalls + r.called
              /\ ow_log' = Append(ow_log, <<"next_chunk", n, r.ret, ow_func, ow_fcalls + r.called>>)
    /\ UNCHANGED ow_val
    /\ Frame("ow")

\* OnceWith.advance_by
OnceWithAdvanceBy ==
    /\ Len(ow_log) < MaxOnceOps
    /\ \E n \in 0..MaxOnceArg :
          LET r == once_advance_by(ow_func, ow_val, n)
          IN  /\ ow_func' = r.fn
              /\ ow_fcalls' = ow_fcalls + r.called
              /\ ow_log' = Append(ow_log, <<"advance_by", n, r.ret, ow_func, ow_fcalls + r.called>>)
    /\ UNCHANGED ow_val
    /\ Frame("ow")

\* OnceWith.skip: warns and returns self, so the calls that follow on the
\* result are calls on this iterator
OnceWithSkip ==
    /\ Len(ow_log) < MaxOnceOps
    /\ \E n \in 0..MaxOnceArg :
          ow_log' = Append(ow_log, <<"skip", n, <<"self">>, ow_func, ow_fcalls>>)
    /\ UNCHANGED <<ow_val, ow_func, ow_fcalls>>
    /\ Frame("ow")

SpecOnceWithInit == OnceWithInit /\ Parked("ow")

SpecOnceWithNext ==
    \/ OnceWithNext
    \/ OnceWithNth
    \/ OnceWithNextChunk
    \/ OnceWithAdvanceBy
    \/ OnceWithSkip

SpecOnceWith == SpecOnceWithInit /\ [][SpecOnceWithNext]_vars

\* C27: once_with(f) does not call f at construction; a first next calls f
\* once and returns Present of its result; every next after a next returns
\* Empty; over any sequence of next, nth, next_chunk and advance_by calls, f
\* is called at most once.
C27_OnceWith ==
    /\ ow_log = <<>> => ow_fcalls = 0
    /\ ow_fcalls <= 1
    /\ \A i \in 1..Len(ow_log) :
          ow_log[i][1] = "next" =>
              /\ i = 1 => (ow_log[i][3] = Some(ow_val) /\ ow_log[i][5] = 1)
              /\ (\E j \in 1..(i - 1) : ow_log[j][1] = "next") => ow_log[i][3] = None

\* next was the first call and was called again, and a third call followed
C27_Witness ==
    /\ Len(ow_log) = 3
    /\ ow_log[1][1] = "next"
    /\ ow_log[2][1] = "next"
    /\ ow_fcalls = 1

\* IterMeta.advance_by on a OnceWith, the round i of `for i in range(n)`
\* onwards: the result and the __func left
RECURSIVE default_advance_by(_, _, _, _)
default_advance_by(fn, val, n, i) ==
    IF i >= n THEN [ret |-> Ok, fn |-> fn]
    ELSE LET r == once_next(fn, val)
         IN  IF is_none(r.ret) THEN [ret |-> Err(n - i), fn |-> r.fn]
             ELSE default_advance_by(r.fn, val, n, i + 1)

\* IterMeta.nth on a OnceWith, the round i of `for i in range(n)` onwards
RECURSIVE default_nth(_, _, _, _)
default_nth(fn, val, n, i) ==
    IF i >= n THEN LET r == once_next(fn, val) IN [ret |-> r.ret, fn |-> r.fn]
    ELSE LET r == once_next(fn, val)
         IN  IF is_none(r.ret) THEN [ret |-> None, fn |-> r.fn]
             ELSE default_nth(r.fn, val, n, i + 1)

\* IterMeta.next_chunk on a OnceWith, with ckl filled so far; `assert n > 0`
RECURSIVE default_next_chunk(_, _, _, _)
default_next_chunk(fn, val, n, ckl) ==
    IF n <= 0 THEN [ret |-> Raise, fn |-> fn]
    ELSE IF Len(ckl) >= n THEN [ret |-> Ok_of(ckl), fn |-> fn]
    ELSE LET r == once_next(fn, val)
         IN  IF is_none(r.ret) THEN [ret |-> Err(ckl), fn |-> r.fn]
             ELSE default_next_chunk(r.fn, val, n, Append(ckl, unwrap(r.ret)))

\* __func as the i-th call of the log left it
OwFuncAfter(i) == IF i < Len(ow_log) THEN ow_log[i + 1][4] ELSE ow_func

\* C33: on a OnceWith iterator in either state (fresh or already consumed)
\* and for every valid n, the overridden advance_by(n), nth(n) and
\* next_chunk(n) return the same result and leave the iterator in the same
\* consumed/unconsumed state as the default implementations of those
\* operations written in terms of next.
C33_OnceWithOverrides ==
    \A i \in 1..Len(ow_log) :
        LET op == ow_log[i][1]
            n == ow_log[i][2]
            fn == ow_log[i][4]
            got == [ret |-> ow_log[i][3], fn |-> OwFuncAfter(i)]
        IN  /\ op = "advance_by" => got = default_advance_by(fn, ow_val, n, 0)
            /\ op = "nth" => got = default_nth(fn, ow_val, n, 0)
            /\ (op = "next_chunk" /\ n > 0) =>
                  got = default_next_chunk(fn, ow_val, n, <<>>)

\* advance_by(2) on the fresh iterator, which runs out after one step, and
\* a next_chunk and an nth on the consumed iterator
C33_Witness ==
    /\ Len(ow_log) = 3
    /\ ow_log[1][1] = "advance_by" /\ ow_log[1][2] = 2 /\ ow_log[1][4] = "Some"
    /\ ow_log[2][1] = "next_chunk" /\ ow_log[2][2] = 1
    /\ ow_log[3][1] = "nth"

\* a OnceWith as the parent of an adapter: the answers of its next, and the
\* position in them that __func stands for
OnceScript == <<Some(ow_val)>>
OncePos(fn) == IF fn = "Some" THEN 0 ELSE 1

\* C40: the overridden OnceWith.skip(n) is observationally equivalent to the
\* default Skip(n) adapter over the same iterator: the first next of the
\* result answers what the first next of Skip(n) answers, that is, for
\* n >= 1 no element and for n = 0 the element.
C40_OnceWithSkip ==
    \A i \in 1..(Len(ow_log) - 1) :
        (ow_log[i][1] = "skip" /\ ow_log[i + 1][1] = "next") =>
            /\ ow_log[i + 1][3] =
                  skip_next(OnceScript, OncePos(ow_log[i][4]), FALSE, ow_log[i][2]).ret
            /\ (ow_log[i][4] = "Some" /\ ow_log[i][2] >= 1) => ow_log[i + 1][3] = None
            /\ (ow_log[i][4] = "Some" /\ ow_log[i][2] = 0) =>
                  ow_log[i + 1][3] = Some(ow_val)

\* ========================================================== construction
\* The adapter methods of IterMeta build the adapter object; what a
\* constructor does to the parent, to the other parent and to the closure.

\* a constructor that only stores its arguments
NoWork == [failed |-> FALSE, calls |-> 0, calls2 |-> 0, fcalls |-> 0]

\* a constructor whose assert fails: AssertionError, nothing is built
AssertFailed == [failed |-> TRUE, calls |-> 0, calls2 |-> 0, fcalls |-> 0]

ctor_Peekable_eager == [NoWork EXCEPT !.calls = 1]

\* Peekable.__init__: stores the parent, __peek is Empty
ctor_Peekable == NoWork

ctor_ArrayChunk_unchecked(n) == NoWork

\* ArrayChunk.__init__: assert chunk_size > 0
ctor_ArrayChunk(n) == IF n > 0 THEN NoWork ELSE AssertFailed

\* Chunk.__init__: assert chunk_size > 0, then it.array_chunk(chunk_size)
ctor_Chunk(n) == IF n > 0 THEN ctor_ArrayChunk(n) ELSE AssertFailed

\* MapWindows.__init__: assert __const_len >= 1
ctor_MapWindows(n) == IF n >= 1 THEN NoWork ELSE AssertFailed

\* the constructor the adapter method `kind` of IterMeta runs: Intersperse
\* builds it.peekable(), GroupBy builds __it.fuse().peekable(), PartitionBy
\* builds its two PartitionGroup, the others store their arguments
ctor(kind, n) ==
    CASE kind = "array_chunk" -> ctor_ArrayChunk(n)
      [] kind = "chunk" -> ctor_Chunk(n)
      [] kind = "map_windows" -> ctor_MapWindows(n)
      [] kind \in {"peekable", "intersperse", "group_by"} -> ctor_Peekable
      [] OTHER -> NoWork

\* Filter.next: pull until the predicate holds or the parent answers Empty;
\* the answer is the parent calls and the predicate calls
RECURSIVE filter_loop(_, _, _)
filter_loop(src, calls, pred) ==
    LET x == SrcNext(src, calls)
    IN  IF is_none(x) THEN [calls |-> calls + 1, calls2 |-> 0, fcalls |-> calls]
        ELSE IF pred[unwrap(x)]
             THEN [calls |-> calls + 1, calls2 |-> 0, fcalls |-> calls + 1]
        ELSE filter_loop(src, calls + 1, pred)

\* PartitionBy.__next_left: pull, and split, until a Left or the parent's
\* Empty; the predicate answers TRUE for a Left
RECURSIVE next_left_loop(_, _, _)
next_left_loop(src, calls, pred) ==
    LET x == SrcNext(src, calls)
    IN  IF is_none(x) THEN [calls |-> calls + 1, calls2 |-> 0, fcalls |-> calls]
        ELSE IF pred[unwrap(x)]
             THEN [calls |-> calls + 1, calls2 |-> 0, fcalls |-> calls + 1]
        ELSE next_left_loop(src, calls + 1, pred)

\* next on the adapter just built (for partition_by, on its left child):
\* the parent calls, the other parent's calls and the closure calls it makes
first_next(kind, n, pred, src, src2) ==
    LET Work(a, b, c) == [calls |-> a, calls2 |-> b, fcalls |-> c]
        present == IF is_some(SrcNext(src, 0)) THEN 1 ELSE 0
    IN  CASE kind \in {"map", "scan", "take_while", "group_by"} ->
                \* one pull (GroupBy: by its first peek), the closure runs on
                \* a Present
                Work(1, 0, present)
          [] kind = "filter" -> filter_loop(src, 0, pred)
          [] kind = "skip" -> Work(skip_next(src, 0, FALSE, n).calls, 0, 0)
          [] kind = "take" -> Work(take_next(src, 0, n).calls, 0, 0)
          [] kind \in {"peekable", "intersperse"} ->
                \* Intersperse: __need_sep is False, it.next()
                Work(Peekable_next(src, 0, None).calls, 0, 0)
          [] kind \in {"array_chunk", "chunk"} ->
                Work(array_chunk_next(src, 0, n, Unset).calls, 0, 0)
          [] kind = "map_windows" ->
                LET p == push_window(src, 0, n, "Some", Some(<<>>))
                IN  Work(p.calls, 0, IF is_some(p.buffer) THEN 1 ELSE 0)
          [] kind = "partition_by" -> next_left_loop(src, 0, pred)
          [] kind = "chain" ->
                \* the other parent is pulled if the first answers Empty
                Work(1, 1 - present, 0)
          [] kind = "zip" -> Work(1, 1, 0)
          [] kind = "fuse" -> Work(1, 0, 0)

\* one or two iterators, no adapter yet
ConstructInit ==
    /\ con_src \in Scripts
    /\ con_src2 \in SeqsUpTo(Answers, MaxOther)
    /\ con_calls = 0
    /\ con_calls2 = 0
    /\ con_fcalls = 0
    /\ con_it = [kind |-> "", n |-> 0, pred |-> <<>>, state |-> ""]

\* an adapter method of IterMeta is called on the parent, with a size
\* argument where it takes one and a predicate where its answers matter
Construct ==
    /\ con_it.state = ""
    /\ \E kind \in {"map", "filter", "skip", "take", "take_while", "peekable",
                    "intersperse", "array_chunk", "chunk", "map_windows",
                    "group_by", "partition_by", "chain", "zip", "scan", "fuse"} :
          \E n \in IF kind \in {"array_chunk", "chunk", "map_windows"}
                   THEN (0 - 1)..MaxCtorArg
                   ELSE IF kind \in {"skip", "take"} THEN 0..MaxCtorArg ELSE {0} :
             \E pred \in IF kind \in {"filter", "partition_by"}
                         THEN [Vals -> BOOLEAN] ELSE {[v \in Vals |-> TRUE]} :
                LET c == ctor(kind, n)
                IN  /\ con_it' = [kind |-> kind, n |-> n, pred |-> pred,
                                  state |-> IF c.failed THEN "failed" ELSE "built"]
                    /\ con_calls' = con_calls + c.calls
                    /\ con_calls2' = con_calls2 + c.calls2
                    /\ con_fcalls' = con_fcalls + c.fcalls
    /\ UNCHANGED <<con_src, con_src2>>
    /\ Frame("con")

\* next is called on the adapter (for partition_by, on its left child)
ConstructedNext ==
    /\ con_it.state = "built"
    /\ LET w == first_next(con_it.kind, con_it.n, con_it.pred, con_src, con_src2)
       IN  /\ con_calls' = con_calls + w.calls
           /\ con_calls2' = con_calls2 + w.calls2
           /\ con_fcalls' = con_fcalls + w.fcalls
    /\ con_it' = [con_it EXCEPT !.state = "called"]
    /\ UNCHANGED <<con_src, con_src2>>
    /\ Frame("con")

SpecConstructInit == ConstructInit /\ Parked("con")

SpecConstructNext == Construct \/ ConstructedNext

SpecConstruct == SpecConstructInit /\ [][SpecConstructNext]_vars

\* C21: constructing any of the adapters performs no call to the parent's
\* next and no call to the supplied closure; elements are pulled and
\* closures run only inside next.
C21_LazyConstruction ==
    /\ [](con_it.state \in {"built", "failed"} =>
             (con_calls = 0 /\ con_calls2 = 0 /\ con_fcalls = 0))
    /\ [][(con_calls' # con_calls \/ con_calls2' # con_calls2 \/ con_fcalls' # con_fcalls)
            => (con_it.state = "built" /\ con_it'.state = "called")]_vars

\* group_by, whose constructor builds two more adapters, was constructed on
\* a parent that has an element to give
C21_Witness ==
    /\ con_it.kind = "group_by"
    /\ con_it.state = "built"
    /\ con_src # <<>>
    /\ is_some(con_src[1])

\* C29: constructing ArrayChunk or Chunk with a chunk size <= 0, or
\* MapWindows with a window size < 1, fails at construction: no adapter
\* exists on which next could be called, and no element was pulled.
C29_SizeChecked ==
    (con_it.kind \in {"array_chunk", "chunk", "map_windows"} /\ con_it.n < 1)
        => (con_it.state = "failed" /\ con_calls = 0)

\* chunk(0) was called on a parent that has an element to give
C29_Witness ==
    /\ con_it.kind = "chunk"
    /\ con_it.n = 0
    /\ con_it.state = "failed"
    /\ con_src # <<>>
    /\ is_some(con_src[1])

\* ============================================================== MapWhile
\* MapWhile.__init__; the function answers Present(<<"f", x>>) or Empty
MapWhileInit ==
    /\ mapw_src \in Scripts
    /\ mapw_func \in [Vals -> BOOLEAN]
    /\ mapw_calls = 0
    /\ mapw_log = <<>>

map_while_next_replay(src, calls, fn) ==
    LET x == SrcNext(src, calls)
    IN  IF is_some(x) /\ ~fn[unwrap(x)] THEN [ret |-> None, calls |-> calls]
        ELSE [ret |-> IF is_some(x) THEN Some(<<"f", unwrap(x)>>) ELSE None,
              calls |-> calls + 1]

\* MapWhile.next as a function of the object's fields:
\* self.__it.next().and_then(lambda v: self.__func(v))
map_while_next(src, calls, fn) ==
    LET x == SrcNext(src, calls)
    IN  [ret |-> IF is_some(x)
                 THEN (IF fn[unwrap(x)] THEN Some(<<"f", unwrap(x)>>) ELSE None)
                 ELSE None,
         calls |-> calls + 1]

\* MapWhile.next
MapWhileNext ==
    /\ Len(mapw_log) < MaxCalls
    /\ LET r == map_while_next(mapw_src, mapw_calls, mapw_func)
       IN  /\ mapw_calls' = r.calls
           /\ mapw_log' = Append(mapw_log, <<"next", r.ret, mapw_calls>>)
    /\ UNCHANGED <<mapw_src, mapw_func>>
    /\ Frame("mapw")

\* the caller calls next on the iterator that the MapWhile wraps
\* (tests/iter_test.py, test_iter_map: it.map_while(..) and then it itself)
MapWhileUnderlyingNext ==
    /\ Len(mapw_log) < MaxCalls
    /\ mapw_log' = Append(mapw_log, <<"it_next", SrcNext(mapw_src, mapw_calls), mapw_calls>>)
    /\ mapw_calls' = mapw_calls + 1
    /\ UNCHANGED <<mapw_src, mapw_func>>
    /\ Frame("mapw")

SpecMapWhileInit == MapWhileInit /\ Parked("mapw")

SpecMapWhileNext == MapWhileNext \/ MapWhileUnderlyingNext

SpecMapWhile == SpecMapWhileInit /\ [][SpecMapWhileNext]_vars

\* the function of the MapWhile applied to an answer of the parent
MapwAnswer(x) ==
    IF is_some(x) /\ mapw_func[unwrap(x)] THEN Some(<<"f", unwrap(x)>>) ELSE None

\* C31: MapWhile keeps no latch: after its function has returned Empty for
\* an element (that element is consumed and not replayed), a later
\* MapWhile.next pulls the next parent element and returns the function's
\* result for it, so Present can follow Empty; the elements after the
\* rejected one remain available from the underlying iterator.  That is:
\* the i-th call, of either kind, gets the i-th answer of the parent,
\* whatever was answered before.
C31_MapWhileNoLatch ==
    \A i \in 1..Len(mapw_log) :
        /\ mapw_log[i][3] = i - 1
        /\ mapw_log[i][1] = "next" =>
              mapw_log[i][2] = MapwAnswer(SrcNext(mapw_src, i - 1))
        /\ mapw_log[i][1] = "it_next" => mapw_log[i][2] = SrcNext(mapw_src, i - 1)

\* the function rejected an element, the next MapWhile.next answered
\* Present, and the underlying iterator gave the element after that
C31_Witness ==
    /\ Len(mapw_log) >= 3
    /\ mapw_log[1][1] = "next" /\ is_some(SrcNext(mapw_src, 0))
    /\ is_none(mapw_log[1][2])
    /\ mapw_log[2][1] = "next" /\ is_some(mapw_log[2][2])
    /\ mapw_log[3][1] = "it_next" /\ is_some(mapw_log[3][2])

\* ================================================================== Scan
\* the closure given to scan, after the scanner of test_iter_scan: the new
\* state adds the element to the state, the answer is Empty above the limit
scanner(state, x, limit) ==
    LET st == state + x
    IN  <<st, IF st > limit THEN None ELSE Some(0 - st)>>

\* Scan.__init__
ScanInit ==
    /\ scan_src \in Scripts
    /\ scan_limit \in 0..MaxScanLimit
    /\ scan_init \in 0..MaxVal
    /\ scan_state = scan_init
    /\ scan_calls = 0
    /\ scan_fcalls = 0
    /\ scan_log = <<>>

update_state_unless_empty(state, x, limit) ==
    LET r == scanner(state, x, limit)
    IN  [state |-> IF is_none(r[2]) THEN state ELSE r[1], ret |-> r[2]]

\* Scan.__update_state: st, opt = self.__func(self.__state, x); the state
\* it stores and the Option it returns
update_state(state, x, limit) ==
    LET r == scanner(state, x, limit)
    IN  [state |-> r[1], ret |-> r[2]]

\* Scan.next: self.__it.next().and_then(lambda x: self.__update_state(x))
ScanNext ==
    /\ Len(scan_log) < MaxCalls
    /\ LET x == SrcNext(scan_src, scan_calls)
           u == update_state(scan_state, unwrap(x), scan_limit)
       IN  IF is_some(x)
           THEN /\ scan_state' = u.state
                /\ scan_fcalls' = scan_fcalls + 1
                /\ scan_log' = Append(scan_log,
                                  <<u.ret, scan_state, u.state, scan_fcalls + 1>>)
           ELSE /\ scan_log' = Append(scan_log, <<None, scan_state, scan_state, scan_fcalls>>)
                /\ UNCHANGED <<scan_state, scan_fcalls>>
    /\ scan_calls' = scan_calls + 1
    /\ UNCHANGED <<scan_src, scan_limit, scan_init>>
    /\ Frame("scan")

SpecScanInit == ScanInit /\ Parked("scan")

SpecScanNext == ScanNext

SpecScan == SpecScanInit /\ [][SpecScanNext]_vars

\* C32: Scan carries a state initialised to init; every Scan.next that
\* obtains a parent element x replaces the state with the first component
\* of fn(state, x) and returns the second component, and the state is
\* replaced also when that second component is Empty; when the parent
\* returns Empty, fn is not called and the state is unchanged.
C32_ScanState ==
    /\ scan_log = <<>> => scan_state = scan_init
    /\ scan_log # <<>> => scan_state = scan_log[Len(scan_log)][3]
    /\ \A i \in 1..Len(scan_log) :
          LET x == SrcNext(scan_src, i - 1)
              before == IF i = 1 THEN scan_init ELSE scan_log[i - 1][3]
              fbefore == IF i = 1 THEN 0 ELSE scan_log[i - 1][4]
          IN  /\ scan_log[i][2] = before
              /\ is_some(x) =>
                    /\ scan_log[i][3] = scanner(before, unwrap(x), scan_limit)[1]
                    /\ scan_log[i][1] = scanner(before, unwrap(x), scan_limit)[2]
                    /\ scan_log[i][4] = fbefore + 1
              /\ is_none(x) =>
                    /\ scan_log[i][3] = before
                    /\ scan_log[i][1] = None
                    /\ scan_log[i][4] = fbefore

\* the scanner answered Present, then Empty for an element, which changed
\* the state, and the parent answered Empty after that
C32_Witness ==
    /\ Len(scan_log) >= 3
    /\ is_some(scan_log[1][1])
    /\ is_some(SrcNext(scan_src, 1))
    /\ is_none(scan_log[2][1])
    /\ scan_log[2][3] # scan_log[2][2]
    /\ is_none(SrcNext(scan_src, 2))

====
